---- MODULE Spec2Model ----
(***************************************************************************)
(* Verification model of bgc_data_processing (nansencenter/prepobs_bgc).   *)
(*                                                                         *)
(* The package is single threaded; every public call runs to completion.   *)
(* Each component is modelled as its own state machine over its own        *)
(* variables, with one specification per component:                        *)
(*   SpecConstraints   core/filtering.py        Constraints                *)
(*   SpecMatch         comparison/matching.py   Match                      *)
(*   SpecInterp        comparison/interpolation.py  Interpolator           *)
(*   SpecFeatures      core/variables/sets.py   FeatureVariablesSet        *)
(*   SpecVarSet        core/variables/sets.py   VariableSet and subclasses *)
(*   SpecStorer        core/storers.py          Storer                     *)
(*   SpecMetric        comparison/metrics.py    BaseMetric                 *)
(*   SpecSelect        comparison/matching.py   SelectiveDataSource        *)
(*   SpecInterpStorer  comparison/interpolation.py  interpolate_storer     *)
(*   SpecLoaders       core/loaders             alias and flag resolution  *)
(*   SpecNanRows       core/loaders/base.py     remove_nan_rows            *)
(*   SpecBoundary      core/filtering.py        bounds that may be None    *)
(*   SpecField         core/filtering.py        constraints of one field   *)
(*   SpecSlice         core/storers.py          Slice                      *)
(*   SpecSaving        core/variables/sets.py   saving order               *)
(*   SpecDedup         core/storers.py          remove_duplicates          *)
(*   SpecDateRange     utils/dateranges.py      DateRangeGenerator         *)
(*   SpecPattern       utils/patterns.py        FileNamePattern            *)
(* The variables of the other components stay at their idle value.         *)
(***************************************************************************)
EXTENDS Integers, Sequences, FiniteSets, TLC

VARIABLES
    \* ---- Constraints (core/filtering.py)
    boundaries,     \* Constraints.boundaries : label -> [min, max]
    supersets,      \* Constraints.supersets  : label -> list of values
    polygons,       \* Constraints.polygons   : list of polygon constraints
    dataframe,      \* the table handed to apply_constraints_to_dataframe
    ret,            \* value returned by the last call on the Constraints
    \* ---- Match (comparison/matching.py)
    index_link,     \* Match.index_link : rows (obs_index, sim_index)
    loaded_df,      \* the table handed to Match.match
    reshaped,       \* value returned by Match.match
    \* ---- Interpolator (comparison/interpolation.py)
    sim_data,       \* Interpolator._storer.data : the matched simulation rows
    obs_row,        \* the observation row handed to Interpolator.interpolate
    interpolated,   \* outcome of Interpolator.interpolate
    \* ---- FeatureVariablesSet.iter_constructables_features (variables/sets.py)
    fset,           \* FeatureVariablesSet._elements : the FeatureVar list
    available_vars, \* the argument of iter_constructables_features
    gen,            \* the generator: its locals and what it has yielded/raised
    \* ---- VariableSet and its subclasses (variables/sets.py)
    vset,           \* the variable set: class, _elements, _save, role names
    vret,           \* the last call on the set and its outcome
    proj,           \* the set returned by the last projection property
    \* ---- Storer (core/storers.py) and WaterMass.flag_in_storer
    frames,         \* the DataFrame objects: columns and index of each
    storers,        \* the Storer objects: _data (a DataFrame object), _variables, ...
    sret,           \* outcome of the last call on a Storer
    operands,       \* the Storers (self, other) of the last call, when it was __add__
    \* ---- BaseMetric.evaluate_storers (comparison/metrics.py)
    observations_storer, \* the observations Storer: its variables and its table
    simulations_storer, \* the simulations Storer
    evaluated,      \* outcome of the last evaluate_storers
    \* ---- SelectiveDataSource (comparison/matching.py)
    reference,      \* SelectiveDataSource.reference : the observations
    filepaths,      \* the simulation files found by get_basenames, in order
    selected,       \* the slice handed to the last select, the Mask and the Match it returned
    loaded_all,     \* outcome of the last load_all
    \* ---- Interpolator.interpolate_storer (comparison/interpolation.py)
    _storer,        \* Interpolator._storer : its category, providers and variables
    obs_to_interp,  \* the observations Storer handed to interpolate_storer
    interpolated_storer, \* outcome of the last interpolate_storer
    \* ---- Loaders: alias resolution and flag filtering (core/loaders, variables/vars.py)
    source_df,      \* the source: its columns (fields, keys) and its rows
    variable,       \* the ExistingVar: _aliases and default
    resolved,       \* the column the last loader call resolved for the variable
    \* ---- BaseLoader.remove_nan_rows (core/loaders/base.py)
    loader_variables, \* the loader's variables: label, remove_if_nan, remove_if_all_nan
    nan_df,         \* the table handed to remove_nan_rows
    cleaned,        \* outcome of the last remove_nan_rows
    \* ---- Constraints of one field (core/filtering.py)
    field_call,     \* arguments of the last apply_specific_constraint / get_extremes
    \* ---- Slice (core/storers.py)
    sliced_storers, \* tables of the Storer objects that get sliced
    made_slices,    \* the last Slice made for each side of an addition
    slice_sum,      \* outcome of the last Slice.__add__
    \* ---- Storer.remove_duplicates (core/storers.py)
    storer_data,    \* Storer._data
    data_before,    \* the table before the last remove_duplicates
    dedup_call,     \* priority_list and outcome of the last remove_duplicates
    \* ---- DateRangeGenerator (utils/dateranges.py)
    dateranges_gen, \* the DateRangeGenerator: start, end, interval, interval_length
    dateranges,     \* what the last call of the generator returned
    \* ---- FileNamePattern (utils/patterns.py)
    pattern_dates,  \* date_min and date_max given to FileNamePattern.build
    matcher         \* what the last build returned

consVars == <<boundaries, supersets, polygons, dataframe, ret>>
matchVars == <<index_link, loaded_df, reshaped>>

interpVars == <<sim_data, obs_row, interpolated>>

featVars == <<fset, available_vars, gen>>

vsetVars == <<vset, vret, proj>>

storerVars == <<frames, storers, sret, operands>>

metricVars == <<observations_storer, simulations_storer, evaluated>>

selectVars == <<reference, filepaths, selected, loaded_all>>

istorerVars == <<_storer, obs_to_interp, interpolated_storer>>

loaderVars == <<source_df, variable, resolved>>

nanVars == <<loader_variables, nan_df, cleaned>>

fieldVars == <<field_call>>

sliceVars == <<sliced_storers, made_slices, slice_sum>>

dedupVars == <<storer_data, data_before, dedup_call>>

drgVars == <<dateranges_gen, dateranges>>

patternVars == <<pattern_dates, matcher>>

vars == <<consVars, matchVars, interpVars, featVars, vsetVars, storerVars, metricVars, selectVars, istorerVars, loaderVars, nanVars, fieldVars, sliceVars, dedupVars, drgVars, patternVars>>

\* what a call on one component leaves alone: every other component
notCons == <<matchVars, interpVars, featVars, vsetVars, storerVars, metricVars, selectVars, istorerVars, loaderVars, nanVars, fieldVars, sliceVars, dedupVars, drgVars, patternVars>>
notConsField == <<matchVars, interpVars, featVars, vsetVars, storerVars, metricVars, selectVars, istorerVars, loaderVars, nanVars, sliceVars, dedupVars, drgVars, patternVars>>
notMatch == <<consVars, interpVars, featVars, vsetVars, storerVars, metricVars, selectVars, istorerVars, loaderVars, nanVars, fieldVars, sliceVars, dedupVars, drgVars, patternVars>>
notInterp == <<consVars, matchVars, featVars, vsetVars, storerVars, metricVars, selectVars, istorerVars, loaderVars, nanVars, fieldVars, sliceVars, dedupVars, drgVars, patternVars>>
notFeat == <<consVars, matchVars, interpVars, vsetVars, storerVars, metricVars, selectVars, istorerVars, loaderVars, nanVars, fieldVars, sliceVars, dedupVars, drgVars, patternVars>>
notVset == <<consVars, matchVars, interpVars, featVars, storerVars, metricVars, selectVars, istorerVars, loaderVars, nanVars, fieldVars, sliceVars, dedupVars, drgVars, patternVars>>
notStorer == <<consVars, matchVars, interpVars, featVars, vsetVars, metricVars, selectVars, istorerVars, loaderVars, nanVars, fieldVars, sliceVars, dedupVars, drgVars, patternVars>>
notMetric == <<consVars, matchVars, interpVars, featVars, vsetVars, storerVars, selectVars, istorerVars, loaderVars, nanVars, fieldVars, sliceVars, dedupVars, drgVars, patternVars>>
notSelect == <<consVars, matchVars, interpVars, featVars, vsetVars, storerVars, metricVars, istorerVars, loaderVars, nanVars, fieldVars, sliceVars, dedupVars, drgVars, patternVars>>
notIStorer == <<consVars, matchVars, interpVars, featVars, vsetVars, storerVars, metricVars, selectVars, loaderVars, nanVars, fieldVars, sliceVars, dedupVars, drgVars, patternVars>>
notLoader == <<consVars, matchVars, interpVars, featVars, vsetVars, storerVars, metricVars, selectVars, istorerVars, nanVars, fieldVars, sliceVars, dedupVars, drgVars, patternVars>>
notNan == <<consVars, matchVars, interpVars, featVars, vsetVars, storerVars, metricVars, selectVars, istorerVars, loaderVars, fieldVars, sliceVars, dedupVars, drgVars, patternVars>>
notField == <<consVars, matchVars, interpVars, featVars, vsetVars, storerVars, metricVars, selectVars, istorerVars, loaderVars, nanVars, sliceVars, dedupVars, drgVars, patternVars>>
notSlice == <<consVars, matchVars, interpVars, featVars, vsetVars, storerVars, metricVars, selectVars, istorerVars, loaderVars, nanVars, fieldVars, dedupVars, drgVars, patternVars>>
notDedup == <<consVars, matchVars, interpVars, featVars, vsetVars, storerVars, metricVars, selectVars, istorerVars, loaderVars, nanVars, fieldVars, sliceVars, drgVars, patternVars>>
notDrg == <<consVars, matchVars, interpVars, featVars, vsetVars, storerVars, metricVars, selectVars, istorerVars, loaderVars, nanVars, fieldVars, sliceVars, dedupVars, patternVars>>
notPattern == <<consVars, matchVars, interpVars, featVars, vsetVars, storerVars, metricVars, selectVars, istorerVars, loaderVars, nanVars, fieldVars, sliceVars, dedupVars, drgVars>>

(***************************************************************************)
(* Shared helpers                                                          *)
(***************************************************************************)

\* np.nan: compares false with everything (filtering.py:36)
NaN == -99

IsNaN(v) == v = NaN

\* Python's None, where the model holds a number
PyNone == NaN - 1

\* pandas elementwise >= and <= : False as soon as one side is NaN
\* (a Series compared with the scalar None is False everywhere as well)
Ge(a, b) == ~IsNaN(a) /\ ~IsNaN(b) /\ b # PyNone /\ a >= b
Le(a, b) == ~IsNaN(a) /\ ~IsNaN(b) /\ b # PyNone /\ a <= b

Range(s) == {s[i] : i \in DOMAIN s}

\* all sequences over S of length 0..n
SeqsUpTo(S, n) == UNION {[1..k -> S] : k \in 0..n}

(***************************************************************************)
(* Constraints  (core/filtering.py)                                        *)
(***************************************************************************)

\* ---- bounds of the explored inputs
MaxRows == 2        \* rows of the table
MaxPolygons == 2    \* polygon constraints registered at once

\* a rectangle stands for a shapely Polygon; x is the longitude, y the latitude
BigSquare == [xmin |-> 0, xmax |-> 4, ymin |-> 0, ymax |-> 4]
SmallSquare == [xmin |-> 1, xmax |-> 3, ymin |-> 1, ymax |-> 3]
PolygonPool == {BigSquare, SmallSquare}

BoundedLabels == {"A", "LAT"}
BoundPool(label) == IF label = "A" THEN {NaN, 1, 2} ELSE {NaN, 2}
SupersetLabels == {"A"}
SupersetPool == {<<>>, <<1>>, <<2>>, <<1, 2>>}

\* rows carry their index label (idx) next to their columns
RowPool == [A : {NaN, 1, 2}, LAT : {1, 2}, LON : {1, 2}]
Reindex(s) == [i \in DOMAIN s |-> [idx |-> 10 * i, A |-> s[i].A,
                                   LAT |-> s[i].LAT, LON |-> s[i].LON]]
TablePool == {Reindex(s) : s \in SeqsUpTo({r \in RowPool : r.LAT = r.LON}, MaxRows)}

NoneRet == [kind |-> "None", rows |-> <<>>]
FrameRet(rows) == [kind |-> "DataFrame", rows |-> rows]

\* shapely: a point is within a polygon iff it lies in its interior
Within(lon, lat, polygon) ==
    /\ polygon.xmin < lon /\ lon < polygon.xmax
    /\ polygon.ymin < lat /\ lat < polygon.ymax

\* one turn of the loop of _apply_boundary_constraints, for one row
BoundaryHolds(row, label, bounds) ==
    LET minimum == bounds.min
        maximum == bounds.max
        is_min_nan == IsNaN(minimum)
        is_max_nan == IsNaN(maximum)
    IN  IF is_min_nan /\ is_max_nan THEN TRUE
        ELSE IF is_max_nan THEN Ge(row[label], minimum)
        ELSE IF is_min_nan THEN Le(row[label], maximum)
        ELSE Ge(row[label], minimum) /\ Le(row[label], maximum)

RECURSIVE FoldBoundaries(_, _, _)
FoldBoundaries(df, labels, series) ==
    IF labels = {} THEN series
    ELSE LET label == CHOOSE l \in labels : TRUE
             bool_series == [i \in DOMAIN df |->
                                BoundaryHolds(df[i], label, boundaries[label])]
         IN  FoldBoundaries(df, labels \ {label},
                            [i \in DOMAIN df |-> series[i] /\ bool_series[i]])

AllTrue(df) == [i \in DOMAIN df |-> TRUE]

_apply_boundary_constraints(df) ==
    FoldBoundaries(df, DOMAIN boundaries, AllTrue(df))

RECURSIVE FoldSupersets(_, _, _)
FoldSupersets(df, labels, series) ==
    IF labels = {} THEN series
    ELSE LET label == CHOOSE l \in labels : TRUE
             value_set == supersets[label]
             \* Series.isin: NaN is in no list of numbers
             bool_series == [i \in DOMAIN df |->
                                /\ ~IsNaN(df[i][label])
                                /\ df[i][label] \in Range(value_set)]
         IN  FoldSupersets(df, labels \ {label},
                           [i \in DOMAIN df |-> series[i] /\ bool_series[i]])

_apply_superset_constraints(df) ==
    FoldSupersets(df, DOMAIN supersets, AllTrue(df))

RECURSIVE FoldPolygons(_, _, _)
FoldPolygons(df, k, series) ==
    IF k > Len(polygons) THEN series
    ELSE LET constraint == polygons[k]
             is_in_polygon == [i \in DOMAIN df |->
                                  Within(df[i][constraint.longitude_field],
                                         df[i][constraint.latitude_field],
                                         constraint.polygon)]
         IN  FoldPolygons(df, k + 1,
                          [i \in DOMAIN df |-> series[i] /\ is_in_polygon[i]])

_apply_polygon_constraints(df) == FoldPolygons(df, 1, AllTrue(df))

\* DataFrame.loc[mask, :] : the rows whose mask is True, in order, index kept
RECURSIVE LocMask(_, _, _)
LocMask(df, mask, i) ==
    IF i > Len(df) THEN <<>>
    ELSE (IF mask[i] THEN <<df[i]>> ELSE <<>>) \o LocMask(df, mask, i + 1)

\* mutation: the polygon series is left out of the conjunction
apply_constraints_without_polygons(df) ==
    LET bool_boundaries == _apply_boundary_constraints(df)
        bool_supersets == _apply_superset_constraints(df)
        verify_all == [i \in DOMAIN df |-> bool_boundaries[i] /\ bool_supersets[i]]
    IN  LocMask(df, verify_all, 1)

apply_constraints_to_dataframe(df) ==
    LET bool_boundaries == _apply_boundary_constraints(df)
        bool_supersets == _apply_superset_constraints(df)
        bool_polygons == _apply_polygon_constraints(df)
        verify_all == [i \in DOMAIN df |->
                          bool_boundaries[i] /\ bool_supersets[i] /\ bool_polygons[i]]
    IN  LocMask(df, verify_all, 1)

ConsInit ==
    /\ boundaries = <<>>
    /\ supersets = <<>>
    /\ polygons = <<>>
    /\ dataframe \in TablePool
    /\ ret = NoneRet

ConsIdle ==
    /\ boundaries = <<>>
    /\ supersets = <<>>
    /\ polygons = <<>>
    /\ dataframe = <<>>
    /\ ret = NoneRet

\* dict[key] = value
DictSet(d, key, value) ==
    [k \in DOMAIN d \cup {key} |-> IF k = key THEN value ELSE d[k]]

\* Constraints.add_boundary_constraint : isinstance(value, float) and
\* np.isnan(value) is False for None
Constraints_add_boundary_constraint(field_label, minimal_value, maximal_value) ==
    LET is_min_nan == IsNaN(minimal_value)
        is_max_nan == IsNaN(maximal_value)
    IN  /\ boundaries' = IF ~(is_min_nan /\ is_max_nan)
                         THEN DictSet(boundaries, field_label,
                                      [min |-> minimal_value, max |-> maximal_value])
                         ELSE boundaries
        /\ ret' = NoneRet
        /\ UNCHANGED <<supersets, polygons, dataframe, notCons>>

add_boundary_constraint ==
    \E field_label \in BoundedLabels :
    \E minimal_value \in BoundPool(field_label) :
    \E maximal_value \in BoundPool(field_label) :
        Constraints_add_boundary_constraint(field_label, minimal_value, maximal_value)

\* the same call, the bounds being numbers, NaN or None
add_boundary_constraint_or_none ==
    \E field_label \in BoundedLabels :
    \E minimal_value \in BoundPool(field_label) \cup {PyNone} :
    \E maximal_value \in BoundPool(field_label) \cup {PyNone} :
        Constraints_add_boundary_constraint(field_label, minimal_value, maximal_value)

add_superset_constraint ==
    \E field_label \in SupersetLabels :
    \E values_superset \in SupersetPool :
        /\ supersets' = IF values_superset # <<>>
                        THEN DictSet(supersets, field_label, values_superset)
                        ELSE supersets
        /\ ret' = NoneRet
        /\ UNCHANGED <<boundaries, polygons, dataframe, notCons>>

add_polygon_constraint ==
    \E polygon \in PolygonPool :
        /\ Len(polygons) < MaxPolygons
        /\ polygons' = Append(polygons, [latitude_field |-> "LAT",
                                         longitude_field |-> "LON",
                                         polygon |-> polygon])
        /\ ret' = NoneRet
        /\ UNCHANGED <<boundaries, supersets, dataframe, notCons>>

reset ==
    /\ boundaries' = <<>>
    /\ supersets' = <<>>
    /\ ret' = NoneRet
    /\ UNCHANGED <<polygons, dataframe, notCons>>

ApplyConstraintsToDataframe ==
    /\ ret' = FrameRet(apply_constraints_to_dataframe(dataframe))
    /\ UNCHANGED <<boundaries, supersets, polygons, dataframe, notCons>>

ConsNext ==
    \/ add_boundary_constraint
    \/ add_superset_constraint
    \/ add_polygon_constraint
    \/ reset
    \/ ApplyConstraintsToDataframe


\* ---- C1
\* a row satisfies one registered boundary: min <= v when min is set,
\* v <= max when max is set
SatisfiesBoundary(row, label) ==
    LET b == boundaries[label]
        v == row[label]
    IN  /\ (b.min # NaN => (v # NaN /\ v >= b.min))
        /\ (b.max # NaN => (v # NaN /\ v <= b.max))

SatisfiesSuperset(row, label) ==
    \E k \in DOMAIN supersets[label] : supersets[label][k] = row[label]

SatisfiesPolygon(row, k) ==
    LET p == polygons[k].polygon
    IN  /\ p.xmin < row.LON /\ row.LON < p.xmax
        /\ p.ymin < row.LAT /\ row.LAT < p.ymax

SatisfiesEveryPredicate(row) ==
    /\ \A label \in DOMAIN boundaries : SatisfiesBoundary(row, label)
    /\ \A label \in DOMAIN supersets : SatisfiesSuperset(row, label)
    /\ \A k \in DOMAIN polygons : SatisfiesPolygon(row, k)

NothingRegistered ==
    DOMAIN boundaries = {} /\ DOMAIN supersets = {} /\ Len(polygons) = 0

\* C1: apply_constraints_to_dataframe returns exactly the rows of the table
\* that satisfy every registered boundary, superset and polygon predicate
\* (logical AND), in order and under their original index; with nothing
\* registered it returns the table unchanged.
C1_ConstraintConjunction ==
    ret.kind = "DataFrame" =>
        /\ ret.rows = SelectSeq(dataframe, SatisfiesEveryPredicate)
        /\ NothingRegistered => ret.rows = dataframe

\* all three kinds registered, two different polygons, some rows kept and
\* some rows dropped
C1_Witness ==
    /\ ret.kind = "DataFrame"
    /\ DOMAIN boundaries # {} /\ DOMAIN supersets # {}
    /\ Len(polygons) = 2 /\ polygons[1] # polygons[2]
    /\ Len(ret.rows) > 0 /\ Len(ret.rows) < Len(dataframe)

\* ---- C25
\* C25: after reset() no constraint of any kind remains and
\* apply_constraints_to_dataframe returns every row of its input, as for a
\* freshly constructed Constraints object.
C25_ResetClearsAll ==
    [][reset => /\ boundaries' = <<>> /\ supersets' = <<>> /\ polygons' = <<>>
                /\ apply_constraints_to_dataframe(dataframe)' = dataframe']_vars

\* ---- C21
BoundaryNext ==
    \/ add_boundary_constraint_or_none
    \/ ApplyConstraintsToDataframe

\* a bound is unset when it is NaN or None
Unset(bound) == bound = NaN \/ bound = PyNone

\* min <= v when min is set, v <= max when max is set
WithinBounds(row, label) ==
    LET b == boundaries[label]
        v == row[label]
    IN  /\ (~Unset(b.min) => (v # NaN /\ v >= b.min))
        /\ (~Unset(b.max) => (v # NaN /\ v <= b.max))

WithinEveryBounds(row) == \A label \in DOMAIN boundaries : WithinBounds(row, label)

\* C21: add_boundary_constraint registers nothing when both bounds are
\* unset (NaN or None); otherwise the registered constraint keeps exactly
\* the rows whose value v satisfies min <= v when min is set and v <= max
\* when max is set, the side of an unset bound being open.
C21_BoundaryInclusive ==
    /\ \A label \in DOMAIN boundaries :
          ~(Unset(boundaries[label].min) /\ Unset(boundaries[label].max))
    /\ ret.kind = "DataFrame" =>
          ret.rows = SelectSeq(dataframe, WithinEveryBounds)

(***************************************************************************)
(* Match  (comparison/matching.py)                                         *)
(***************************************************************************)

MaxObs == 3         \* observations of the slice
MaxLoaded == 2      \* rows of the loaded simulation table

SimIndexPool == {7, 8}
LoadedRowPool == [idx : {7, 8, 9}, val : {1, 2}]
LoadedPool == SeqsUpTo(LoadedRowPool, MaxLoaded)

\* Match.__init__: the series (index = observation index, value = closest
\* simulated index) becomes the two-column frame index_link
Match__init__(obs_closests_indexes) ==
    [k \in DOMAIN obs_closests_indexes |->
        [obs_index |-> obs_closests_indexes[k].index,
         sim_index |-> obs_closests_indexes[k].value]]

\* the observation index of the k-th observation of the slice is 10, 11, ...
ClosestsPool ==
    {[k \in DOMAIN s |-> [index |-> 9 + k, value |-> s[k]]] :
        s \in SeqsUpTo(SimIndexPool, MaxObs)}

\* rows of right whose key equals sim, in the order of right
RECURSIVE RightMatches(_, _, _)
RightMatches(right, sim, k) ==
    IF k > Len(right) THEN <<>>
    ELSE (IF right[k].sim_index = sim THEN <<right[k]>> ELSE <<>>)
         \o RightMatches(right, sim, k + 1)

\* mutation: a reduce, the loaded row goes to the first observation only
RECURSIVE MergeFirst(_, _, _)
MergeFirst(left, right, i) ==
    IF i > Len(left) THEN <<>>
    ELSE LET found == RightMatches(right, left[i].sim_index, 1)
             joined == <<[load_index |-> left[i].load_index,
                          sim_index |-> left[i].sim_index,
                          obs_index |-> IF found = <<>> THEN NaN
                                        ELSE found[1].obs_index]>>
         IN  joined \o MergeFirst(left, right, i + 1)

\* pd.merge(left, right, on=sim_index, how="left"): the order of left is kept,
\* a left row is repeated once per matching right row and kept once with a
\* NaN obs_index when no right row matches
RECURSIVE MergeLeft(_, _, _)
MergeLeft(left, right, i) ==
    IF i > Len(left) THEN <<>>
    ELSE LET found == RightMatches(right, left[i].sim_index, 1)
             joined == IF found = <<>>
                       THEN <<[load_index |-> left[i].load_index,
                               sim_index |-> left[i].sim_index,
                               obs_index |-> NaN]>>
                       ELSE [k \in DOMAIN found |->
                               [load_index |-> left[i].load_index,
                                sim_index |-> left[i].sim_index,
                                obs_index |-> found[k].obs_index]]
         IN  joined \o MergeLeft(left, right, i + 1)

\* Match.match, for a Match whose index_link is link
Match_match(link, loaded) ==
    LET loaded_index == [i \in DOMAIN loaded |->
                            [load_index |-> i - 1, sim_index |-> loaded[i].idx]]
        loaded_copy == [i \in DOMAIN loaded |-> loaded[i]]
        merge == MergeLeft(loaded_index, link, 1)
    IN  \* loaded_copy.loc[merge[load_index], :] re-indexed by merge[obs_index]
        [j \in DOMAIN merge |->
            [idx |-> merge[j].obs_index,
             val |-> loaded_copy[merge[j].load_index + 1].val]]

match(loaded) == Match_match(index_link, loaded)

MatchInit ==
    /\ \E obs_closests_indexes \in ClosestsPool :
          index_link = Match__init__(obs_closests_indexes)
    /\ loaded_df = <<>>
    /\ reshaped = NoneRet

DoMatch ==
    \E loaded \in LoadedPool :
        /\ loaded_df' = loaded
        /\ reshaped' = FrameRet(match(loaded))
        /\ UNCHANGED <<index_link, notMatch>>

MatchIdle ==
    /\ index_link = <<>>
    /\ loaded_df = <<>>
    /\ reshaped = NoneRet

MatchNext == DoMatch

\* ---- C2
ValuesAt(rows, index) ==
    LET kept == SelectSeq(rows, LAMBDA r : r.idx = index)
    IN  [j \in DOMAIN kept |-> kept[j].val]

\* C2: for every observation index o that the Match maps to the simulation
\* flat index s, the rows of the output indexed by o are the loaded rows of
\* s; observations 10 and 11 mapped to the same s each get their own copy.
C2_MatchFanOut ==
    reshaped.kind = "DataFrame" =>
        \A k \in DOMAIN index_link :
            ValuesAt(reshaped.rows, index_link[k].obs_index)
                = ValuesAt(loaded_df, index_link[k].sim_index)

\* observations 10 and 11 both select flat index 7, which is loaded
C2_Witness ==
    /\ reshaped.kind = "DataFrame"
    /\ Len(index_link) >= 2
    /\ index_link[1] = [obs_index |-> 10, sim_index |-> 7]
    /\ index_link[2] = [obs_index |-> 11, sim_index |-> 7]
    /\ \E i \in DOMAIN loaded_df : loaded_df[i].idx = 7
    /\ ValuesAt(reshaped.rows, 10) # <<>>
    /\ ValuesAt(reshaped.rows, 10) = ValuesAt(reshaped.rows, 11)

(***************************************************************************)
(* Interpolator  (comparison/interpolation.py)                             *)
(*                                                                         *)
(* Columns of the simulation table: DEPH is the x column (self._x), TEMP   *)
(* is interpolated (self._ys), SALT is not (a "constant" column).          *)
(* Interpolated values are exact fractions [num, den].                     *)
(***************************************************************************)

MaxProfile == 3     \* rows of the simulation table

Frac(n, d) == [num |-> n, den |-> d]
Whole(v) == Frac(v, 1)
NaNFrac == Frac(NaN, 1)

ProfileRowPool ==
    [idx : {10}, DEPH : {-20, -10, -5}, TEMP : {0, 4}, SALT : {1, 2}]
        \cup {[idx |-> 11, DEPH |-> -10, TEMP |-> 0, SALT |-> 1]}
SimDataPool == SeqsUpTo(ProfileRowPool, MaxProfile)
ObsRowPool == [name : {10, 11}, DEPH : {NaN, -30, -20, -7, -5, -2}]

\* DataFrame.loc[name, :] : the rows of that index; a single matching row
\* comes back as a Series, several as a DataFrame, none raises KeyError
LocName(data, name) == SelectSeq(data, LAMBDA r : r.idx = name)

RECURSIVE SeqMax(_)
SeqMax(xs) ==
    IF Len(xs) = 1 THEN xs[1]
    ELSE LET m == SeqMax(Tail(xs)) IN IF xs[1] >= m THEN xs[1] ELSE m

RECURSIVE SeqMin(_)
SeqMin(xs) ==
    IF Len(xs) = 1 THEN xs[1]
    ELSE LET m == SeqMin(Tail(xs)) IN IF xs[1] <= m THEN xs[1] ELSE m

Depths(ref_slice) == [i \in DOMAIN ref_slice |-> ref_slice[i].DEPH]

\* Series.argmax / argmin : position of the first extreme value
argmax(xs) == CHOOSE i \in DOMAIN xs :
                /\ xs[i] = SeqMax(xs)
                /\ \A j \in DOMAIN xs : xs[j] = SeqMax(xs) => i <= j
argmin(xs) == CHOOSE i \in DOMAIN xs :
                /\ xs[i] = SeqMin(xs)
                /\ \A j \in DOMAIN xs : xs[j] = SeqMin(xs) => i <= j

SeriesOut(name, deph, temp, salt) ==
    [kind |-> "Series", name |-> name, DEPH |-> deph, TEMP |-> temp, SALT |-> salt]
ErrorOut(kind, name) ==
    [kind |-> kind, name |-> name, DEPH |-> NaN, TEMP |-> NaNFrac, SALT |-> NaN]
NoOut == ErrorOut("None", NaN)

_handle_outbound_max(ref_slice, obs_depth, name) ==
    LET max_series == IF Len(ref_slice) = 1 THEN ref_slice[1]
                      ELSE ref_slice[argmax(Depths(ref_slice))]
    IN  SeriesOut(name, obs_depth, Whole(max_series.TEMP), max_series.SALT)

\* mutation: the shallow side picks the row of maximal depth as well
_handle_outbound_min_with_argmax(ref_slice, obs_depth, name) ==
    _handle_outbound_max(ref_slice, obs_depth, name)

_handle_outbound_min(ref_slice, obs_depth, name) ==
    LET min_series == IF Len(ref_slice) = 1 THEN ref_slice[1]
                      ELSE ref_slice[argmin(Depths(ref_slice))]
    IN  SeriesOut(name, obs_depth, Whole(min_series.TEMP), min_series.SALT)

\* _get_columns_to_interp / _get_constant_columns read dataframe.columns,
\* which a Series (single matching row) does not have
_handle_nan_depth(ref_slice, obs_depth, name) ==
    IF Len(ref_slice) = 1 THEN ErrorOut("AttributeError", name)
    ELSE LET constant_values == ref_slice[1]
         IN  SeriesOut(name, obs_depth, NaNFrac, constant_values.SALT)

\* the rows of ref_slice sorted by depth (interp1d sorts x, stable)
RECURSIVE SortedByDepth(_)
SortedByDepth(rows) ==
    IF rows = <<>> THEN <<>>
    ELSE LET i == argmin(Depths(rows))
             rest == [j \in 1..(Len(rows) - 1) |-> IF j < i THEN rows[j] ELSE rows[j + 1]]
         IN  <<rows[i]>> \o SortedByDepth(rest)

\* scipy interp1d(kind="linear") at x_new inside the range of x:
\* hi = searchsorted(x, x_new) clipped to 1..n-1, lo = hi - 1
Interp1dLinear(rows, x_new) ==
    LET sorted == SortedByDepth(rows)
        n == Len(sorted)
        below == Cardinality({i \in 1..n : sorted[i].DEPH < x_new})
        hi == IF below < 1 THEN 2 ELSE IF below > n - 1 THEN n ELSE below + 1
        lo == hi - 1
        x_lo == sorted[lo].DEPH
        x_hi == sorted[hi].DEPH
        y_lo == sorted[lo].TEMP
        y_hi == sorted[hi].TEMP
    IN  IF x_hi = x_lo THEN NaNFrac
        ELSE Frac(y_lo * (x_hi - x_lo) + (y_hi - y_lo) * (x_new - x_lo), x_hi - x_lo)

_interpolate(ref_slice, obs_depth, name) ==
    IF Len(ref_slice) = 1 THEN ErrorOut("AttributeError", name)
    ELSE LET constant_values == ref_slice[1]
         IN  SeriesOut(name, obs_depth, Interp1dLinear(ref_slice, obs_depth),
                       constant_values.SALT)

interpolate(row) ==
    LET ref_slice == LocName(sim_data, row.name)
        obs_depth == row.DEPH
    IN  IF ref_slice = <<>> THEN ErrorOut("KeyError", row.name)
        ELSE LET ref_depths == Depths(ref_slice)
             IN  IF IsNaN(obs_depth)
                 THEN _handle_nan_depth(ref_slice, obs_depth, row.name)
                 ELSE IF obs_depth > SeqMax(ref_depths)
                 THEN _handle_outbound_max(ref_slice, obs_depth, row.name)
                 ELSE IF obs_depth < SeqMin(ref_depths)
                 THEN _handle_outbound_min(ref_slice, obs_depth, row.name)
                 ELSE _interpolate(ref_slice, obs_depth, row.name)

InterpInit ==
    /\ sim_data \in SimDataPool
    /\ obs_row = [name |-> NaN, DEPH |-> NaN]
    /\ interpolated = NoOut

InterpIdle ==
    /\ sim_data = <<>>
    /\ obs_row = [name |-> NaN, DEPH |-> NaN]
    /\ interpolated = NoOut

Interpolate ==
    \E row \in ObsRowPool :
        /\ obs_row' = row
        /\ interpolated' = interpolate(row)
        /\ UNCHANGED <<sim_data, notInterp>>

InterpNext == Interpolate

\* ---- C3, C4
Profile == SelectSeq(sim_data, LAMBDA r : r.idx = obs_row.name)
ProfileDepths == {Profile[i].DEPH : i \in DOMAIN Profile}
Called == interpolated.kind # "None"
Matched == Called /\ Profile # <<>>

\* the profile row r with only its depth replaced by the observation's depth
Clamped(r) == SeriesOut(obs_row.name, obs_row.DEPH, Whole(r.TEMP), r.SALT)

\* C3: an observation depth that is not NaN and lies beyond the maximum
\* (minimum) depth of the matched profile gives the profile row of maximum
\* (minimum) depth with only its depth field replaced by the observation's.
C3_OutOfBoundClamp ==
    (Matched /\ obs_row.DEPH # NaN) =>
        /\ (\A d \in ProfileDepths : obs_row.DEPH > d) =>
              \E i \in DOMAIN Profile :
                  /\ \A d \in ProfileDepths : Profile[i].DEPH >= d
                  /\ interpolated = Clamped(Profile[i])
        /\ (\A d \in ProfileDepths : obs_row.DEPH < d) =>
              \E i \in DOMAIN Profile :
                  /\ \A d \in ProfileDepths : Profile[i].DEPH <= d
                  /\ interpolated = Clamped(Profile[i])

\* profile depths [-5, -10, -20] and observation depth -30: the -20 row
C3_Witness ==
    /\ Matched
    /\ Depths(Profile) = <<-5, -10, -20>>
    /\ Profile[3].TEMP # Profile[1].TEMP
    /\ obs_row.DEPH = -30
    /\ interpolated = Clamped(Profile[3])

\* C4: for a NaN observation depth interpolate raises no error and returns,
\* whatever the number of levels of the matched profile, NaN for the
\* interpolated column, the first profile row's value for the constant
\* column and NaN for the depth.
C4_NaNDepthRow ==
    (Matched /\ obs_row.DEPH = NaN) =>
        interpolated = SeriesOut(obs_row.name, NaN, NaNFrac, Profile[1].SALT)

(***************************************************************************)
(* FeatureVariablesSet.iter_constructables_features                        *)
(*   (core/variables/sets.py, core/variables/vars.py)                      *)
(*                                                                         *)
(* A variable is [name, unit]; a FeatureVar adds required, the names of    *)
(* its required_vars.  The generator is advanced one next() at a time.     *)
(***************************************************************************)

MaxFeatures == 3    \* features of the set

RawVar(name) == [name |-> name, unit |-> "u"]
FeatureVar(name, required) == [name |-> name, unit |-> "u", required |-> required]

\* what each feature of the pool may require; M is never available
FeaturePool ==
    {FeatureVar("F1", r) : r \in {{"A", "B"}, {"F2"}}}
        \cup {FeatureVar("F2", r) : r \in {{"F1", "C"}, {"F3"}, {"M"}}}
        \cup {FeatureVar("F3", r) : r \in {{"F2"}, {"A"}}}

\* VariableSet.__init__ refuses positional variables that share a name
FeatureSetPool ==
    {fs \in SeqsUpTo(FeaturePool, MaxFeatures) :
        \A i, j \in DOMAIN fs : fs[i].name = fs[j].name => i = j}

\* the variables of the storer: raw ones and, possibly, one that carries
\* the name of a feature (same unit or another unit)
AvailablePool ==
    {raw \o extra :
        raw \in {<<>>, <<RawVar("A")>>, <<RawVar("A"), RawVar("B")>>,
                 <<RawVar("A"), RawVar("B"), RawVar("C")>>, <<RawVar("C")>>},
        extra \in {<<>>, <<RawVar("F2")>>, <<[name |-> "F2", unit |-> "w"]>>}}

\* BaseVar.__repr__ and BaseVar.__eq__ : name_unit
repr(var) == <<var.name, var.unit>>
VarEq(a, b) == repr(a) = repr(b)

\* FeatureVar.is_loadable
is_loadable(f, loaded_list) ==
    \A name \in f.required : \E k \in DOMAIN loaded_list : loaded_list[k].name = name

_get_constructable_features(to_inspect, available) ==
    SelectSeq(to_inspect, LAMBDA f : is_loadable(f, available))

\* features = [f for f in features if all(f != a for a in available)]
NotYetAvailable(features, available) ==
    SelectSeq(features, LAMBDA f : \A k \in DOMAIN available : ~VarEq(f, available[k]))

NewGen ==
    [pc |-> "created", available |-> <<>>, features |-> <<>>,
     constructables |-> <<>>, yielded |-> <<>>, raised |-> <<>>, raises |-> 0]

\* for feature in constructables: available.append(feature); yield feature
YieldHead(g, features, constructables) ==
    [g EXCEPT !.pc = "suspended",
              !.available = Append(@, constructables[1]),
              !.features = features,
              !.constructables = Tail(constructables),
              !.yielded = Append(@, constructables[1].name)]

\* the while test and what follows the loop
WhileOrEnd(g, features, constructables) ==
    IF constructables # <<>> THEN YieldHead(g, features, constructables)
    ELSE IF features # <<>>
    THEN [g EXCEPT !.pc = "raised", !.features = features,
                   !.raised = [k \in DOMAIN features |-> features[k].name],
                   !.raises = @ + 1]
    ELSE [g EXCEPT !.pc = "done", !.features = features]

\* one next() on the generator
Advance(g) ==
    IF g.pc = "created"
    THEN LET available == available_vars
             features == fset
             g1 == [g EXCEPT !.available = available]
         IN  WhileOrEnd(g1, features, _get_constructable_features(features, available))
    ELSE IF g.constructables # <<>>
    THEN YieldHead(g, g.features, g.constructables)
    ELSE LET features == NotYetAvailable(g.features, g.available)
         IN  WhileOrEnd(g, features, _get_constructable_features(features, g.available))

FeatInit ==
    /\ fset \in FeatureSetPool
    /\ available_vars \in AvailablePool
    /\ gen = NewGen

FeatIdle ==
    /\ fset = <<>>
    /\ available_vars = <<>>
    /\ gen = NewGen

Resumable == gen.pc \in {"created", "suspended"}

NextYields ==
    /\ Resumable
    /\ Advance(gen).pc = "suspended"
    /\ gen' = Advance(gen)
    /\ UNCHANGED <<fset, available_vars, notFeat>>

NextRaises ==
    /\ Resumable
    /\ Advance(gen).pc = "raised"
    /\ gen' = Advance(gen)
    /\ UNCHANGED <<fset, available_vars, notFeat>>

NextStops ==
    /\ Resumable
    /\ Advance(gen).pc = "done"
    /\ gen' = Advance(gen)
    /\ UNCHANGED <<fset, available_vars, notFeat>>

FeatNext == NextYields \/ NextRaises \/ NextStops

\* ---- C5, C6
AvailableNames == {available_vars[k].name : k \in DOMAIN available_vars}
FeatureNames == {fset[k].name : k \in DOMAIN fset}

\* names that become available when every buildable feature is built
RECURSIVE Closure(_)
Closure(names) ==
    LET more == names \cup {fset[k].name : k \in {j \in DOMAIN fset :
                                                    fset[j].required \subseteq names}}
    IN  IF more = names THEN names ELSE Closure(more)

CanBeBuilt(k) == fset[k].required \subseteq Closure(AvailableNames)
Finished == gen.pc \in {"done", "raised"}
TimesYielded(name) == Cardinality({i \in DOMAIN gen.yielded : gen.yielded[i] = name})
RequiredOf(name) == (CHOOSE k \in DOMAIN fset : fset[k].name = name)

YieldedInOrder ==
    \A i \in DOMAIN gen.yielded :
        \A name \in fset[RequiredOf(gen.yielded[i])].required :
            \/ name \in AvailableNames
            \/ \E j \in 1..(i - 1) : gen.yielded[j] = name

\* C5: a feature is yielded only after each of its required inputs is
\* available (in the initial list or yielded earlier), and once the
\* generator has finished every feature that can be built has been yielded
\* exactly once.
C5_DependencyOrder ==
    /\ YieldedInOrder
    /\ \A k \in DOMAIN fset : TimesYielded(fset[k].name) <= 1
    /\ Finished => \A k \in DOMAIN fset :
                       CanBeBuilt(k) => TimesYielded(fset[k].name) = 1

\* C6: when some feature can never be built, the generator yields every
\* buildable feature, then raises once, and the error lists exactly the
\* features that were never yielded.
C6_StrandedRaise ==
    (Finished /\ \E k \in DOMAIN fset : ~CanBeBuilt(k)) =>
        /\ gen.pc = "raised" /\ gen.raises = 1
        /\ \A k \in DOMAIN fset : CanBeBuilt(k) => TimesYielded(fset[k].name) = 1
        /\ {gen.raised[i] : i \in DOMAIN gen.raised}
              = {fset[k].name : k \in {j \in DOMAIN fset : TimesYielded(fset[j].name) = 0}}

(***************************************************************************)
(* VariableSet, BaseRequiredVarsSet and the projections                    *)
(*   (core/variables/sets.py)                                              *)
(*                                                                         *)
(* A variable is known by its name; "None" is Python's None.               *)
(***************************************************************************)

MaxExtras == 2      \* variables given beyond the mandatory roles

None == "None"

Roles == {"expocode", "provider", "date", "year", "month", "day", "hour",
          "latitude", "longitude", "depth"}

\* the variable given for each role; hour and provider may be None
RoleArgsPool ==
    {[expocode |-> "EXPOCODE", provider |-> p, date |-> "DATE", year |-> "YEAR",
      month |-> "MONTH", day |-> "DAY", hour |-> h, latitude |-> "LATITUDE",
      longitude |-> "LONGITUDE", depth |-> "DEPH"] :
        p \in {None, "PROVIDER"}, h \in {None, "HOUR"}}

NoRoles == [r \in Roles |-> None]

\* variables given as *args / **kwargs, and to add_var
ExtraNames == {"TEMP", "DEPH", "SIGT", "PTEMP"}

\* FeatureVar.is_feature / required_vars : SIGT and PTEMP are features
is_feature(name) == name \in {"SIGT", "PTEMP"}

required_vars(name) ==
    CASE name = "SIGT" -> <<"TEMP", "PSAL">>
      [] name = "PTEMP" -> <<"SIGT", "DEPH">>
      [] OTHER -> <<>>
ExtrasPool ==
    {e \in [args : SeqsUpTo(ExtraNames, MaxExtras), kwargs : SeqsUpTo(ExtraNames, MaxExtras)] :
        Len(e.args) + Len(e.kwargs) <= MaxExtras}

SetClasses == {"VariableSet", "SourceVariableSet", "StoringVariablesSet"}
HasRoles(cls) == cls # "VariableSet"

Unbuilt == [cls |-> None, built |-> FALSE, elements |-> <<>>, save |-> <<>>,
            roles |-> NoRoles, has_provider |-> FALSE, has_hour |-> FALSE]

Outcome(op, arg, outcome) == [op |-> op, arg |-> arg, outcome |-> outcome]
NoCall == Outcome(None, None, None)

HasDuplicates(names) == \E i, j \in DOMAIN names : i # j /\ names[i] = names[j]
Names(vs) == Range(vs.elements)

\* VariableSet.__init__ : only the positional arguments are compared
VariableSet__init__(args, kwargs) ==
    IF Len(args) # Cardinality(Range(args))
    THEN [error |-> "ValueError", set |-> Unbuilt]
    ELSE [error |-> None,
          set |-> [Unbuilt EXCEPT !.cls = "VariableSet", !.built = TRUE,
                                  !.elements = args \o kwargs,
                                  !.save = args \o kwargs]]

\* BaseRequiredVarsSet.__init__
BaseRequiredVarsSet__init__(cls, given, args, kwargs) ==
    IF Len(args) # Cardinality(Range(args))
    THEN [error |-> "ValueError", set |-> Unbuilt]
    ELSE LET order == <<"provider", "expocode", "date", "year", "month", "day",
                        "hour", "latitude", "longitude", "depth">>
             present == SelectSeq(order, LAMBDA r : given[r] # None)
             mandatory_variables == [k \in DOMAIN present |-> given[present[k]]]
             elements == mandatory_variables \o args \o kwargs
         IN  [error |-> None,
              set |-> [cls |-> cls, built |-> TRUE, elements |-> elements,
                       save |-> elements, roles |-> given,
                       has_provider |-> given.provider # None,
                       has_hour |-> given.hour # None]]

\* VariableSet._instantiate_from_elements
_instantiate_from_elements(vs, elements) ==
    [vs EXCEPT !.elements = elements, !.save = elements]

\* VariableSet.add_var
add_var(vs, var) ==
    IF var \in Names(vs)
    THEN [error |-> "DuplicatedVariableNameError", set |-> vs]
    ELSE [error |-> None, set |-> _instantiate_from_elements(vs, Append(vs.elements, var))]

\* VariableSet.pop
VariableSet_pop(vs, var_name) ==
    IF var_name \notin Names(vs)
    THEN [error |-> "IncorrectVariableNameError", set |-> vs]
    ELSE [error |-> None,
          set |-> _instantiate_from_elements(
                      vs, SelectSeq(vs.elements, LAMBDA e : e # var_name))]

\* mutation: the mandatory names are not looked at
BaseRequiredVarsSet_pop_unchecked(vs, var_name) == VariableSet_pop(vs, var_name)

\* BaseRequiredVarsSet.pop
BaseRequiredVarsSet_pop(vs, var_name) ==
    LET mandatory_variables_names == {vs.roles[r] : r \in Roles}
    IN  IF var_name \in mandatory_variables_names
        THEN [error |-> "IncorrectVariableNameError", set |-> vs]
        ELSE VariableSet_pop(vs, var_name)

pop(vs, var_name) ==
    IF HasRoles(vs.cls) THEN BaseRequiredVarsSet_pop(vs, var_name)
    ELSE VariableSet_pop(vs, var_name)

VsetInit ==
    /\ vset = Unbuilt
    /\ vret = NoCall
    /\ proj = Unbuilt

VsetIdle == VsetInit

Construct ==
    /\ ~vset.built
    /\ \E cls \in SetClasses, given \in RoleArgsPool, extras \in ExtrasPool :
          LET made == IF HasRoles(cls)
                      THEN BaseRequiredVarsSet__init__(cls, given, extras.args, extras.kwargs)
                      ELSE VariableSet__init__(extras.args, extras.kwargs)
          IN  /\ vset' = made.set
              /\ vret' = Outcome("__init__", None, made.error)
    /\ UNCHANGED <<proj, notVset>>

AddVar ==
    /\ vset.built
    /\ \E var \in ExtraNames :
          /\ vset' = add_var(vset, var).set
          /\ vret' = Outcome("add_var", var, add_var(vset, var).error)
    /\ UNCHANGED <<proj, notVset>>

Pop ==
    /\ vset.built
    /\ \E var_name \in ExtraNames \cup {"DATE", "HOUR", "SALT"} :
          /\ vset' = pop(vset, var_name).set
          /\ vret' = Outcome("pop", var_name, pop(vset, var_name).error)
    /\ UNCHANGED <<proj, notVset>>

\* ---- projections of a set on another class

\* itertools.chain(*lists)
RECURSIVE Chain(_)
Chain(lists) ==
    IF lists = <<>> THEN <<>> ELSE lists[1] \o Chain(Tail(lists))

\* SourceVariableSet._get_loadable_required_vars
RECURSIVE _get_loadable_required_vars(_)
_get_loadable_required_vars(var) ==
    IF is_feature(var)
    THEN LET required == required_vars(var)
         IN  Chain([k \in DOMAIN required |-> _get_loadable_required_vars(required[k])])
    ELSE <<var>>

\* list(set(...)) : every enumeration of S without repetition
SetOrders(S) ==
    {q \in [1..Cardinality(S) -> S] : Range(q) = S}

\* BaseRequiredVarsSet._get_mandatory_variables_as_input_dict
_get_mandatory_variables_as_input_dict(vs) ==
    [r \in Roles |->
        IF r = "provider" THEN (IF vs.has_provider THEN vs.roles.provider ELSE None)
        ELSE IF r = "hour" THEN (IF vs.has_hour THEN vs.roles.hour ELSE None)
        ELSE vs.roles[r]]

\* first occurrence of each name, in order (keys of a dict)
RECURSIVE DictKeys(_)
DictKeys(names) ==
    IF names = <<>> THEN <<>>
    ELSE LET front == DictKeys(SubSeq(names, 1, Len(names) - 1))
             last == names[Len(names)]
         IN  IF last \in Range(front) THEN front ELSE Append(front, last)

\* VariableSet._get_inputs_for_new_ensemble : var.name of a None raises
_get_inputs_for_new_ensemble(vs, variables_list) ==
    LET variables == _get_mandatory_variables_as_input_dict(vs)
        mandatory_names == {variables[r] : r \in Roles}
    IN  IF None \in mandatory_names
        THEN [error |-> "AttributeError", roles |-> NoRoles, kwargs |-> <<>>]
        ELSE [error |-> None, roles |-> variables,
              kwargs |-> DictKeys(SelectSeq(variables_list,
                                            LAMBDA v : v \notin mandatory_names))]

NewEnsemble(cls, inputs) ==
    IF inputs.error # None THEN [error |-> inputs.error, set |-> Unbuilt]
    ELSE BaseRequiredVarsSet__init__(cls, inputs.roles, <<>>, inputs.kwargs)

\* the variables to load, as a set; the order a mandatory variable comes in
\* has no effect (_get_inputs_for_new_ensemble skips them), so only the other
\* ones are enumerated
Loadables(vs) ==
    Range(Chain([k \in DOMAIN vs.elements |->
                    _get_loadable_required_vars(vs.elements[k])]))
        \ {vs.roles[r] : r \in Roles}

\* SourceVariableSet.loading_variables, for one iteration order of the set
loading_variables(vs, order) ==
    NewEnsemble("LoadingVariablesSet", _get_inputs_for_new_ensemble(vs, order))

\* SourceVariableSet.storing_variables, for one iteration order of the set
storing_variables(vs, order) ==
    NewEnsemble("StoringVariablesSet", _get_inputs_for_new_ensemble(vs, order))

\* StoringVariablesSet.saving_variables
saving_variables(vs) ==
    LET made == NewEnsemble("SavingVariablesSet",
                            _get_inputs_for_new_ensemble(vs, vs.elements))
    IN  IF made.error # None THEN made
        ELSE [made EXCEPT !.set.save = vs.save]

LoadingVariables ==
    /\ vset.built /\ vset.cls = "SourceVariableSet"
    /\ \E order \in SetOrders(Loadables(vset)) :
          /\ proj' = loading_variables(vset, order).set
          /\ vret' = Outcome("loading_variables", None, loading_variables(vset, order).error)
    /\ UNCHANGED <<vset, notVset>>

StoringVariables ==
    /\ vset.built /\ vset.cls = "SourceVariableSet"
    /\ \E order \in SetOrders(Loadables(vset)) :
          /\ proj' = storing_variables(vset, order).set
          /\ vret' = Outcome("storing_variables", None, storing_variables(vset, order).error)
    /\ UNCHANGED <<vset, notVset>>

SavingVariables ==
    /\ vset.built /\ vset.cls = "StoringVariablesSet"
    /\ proj' = saving_variables(vset).set
    /\ vret' = Outcome("saving_variables", None, saving_variables(vset).error)
    /\ UNCHANGED <<vset, notVset>>

VsetNext ==
    \/ Construct
    \/ AddVar
    \/ Pop
    \/ LoadingVariables
    \/ StoringVariables
    \/ SavingVariables

\* ---- C7
\* C7: in every variable set, after construction and after any sequence of
\* add_var and pop, no two variables share a name; a declaration or an
\* add_var that would break this is rejected and leaves the set unchanged.
C7_UniqueNames ==
    vset.built => ~HasDuplicates(vset.elements)

\* ---- C8
MandatoryNames == {vset.roles[r] : r \in Roles} \ {None}

RolesResolve ==
    (vset.built /\ HasRoles(vset.cls)) =>
        /\ vset.roles \in RoleArgsPool
        /\ vset.roles = [r \in Roles |->
                            IF r = "provider" THEN (IF vset.has_provider THEN "PROVIDER" ELSE None)
                            ELSE IF r = "hour" THEN (IF vset.has_hour THEN "HOUR" ELSE None)
                            ELSE vset.roles[r]]
        /\ MandatoryNames \subseteq Names(vset)

\* a step that is a pop of a mandatory role fails and changes nothing;
\* no step changes the role names
MandatoryPopRejected ==
    /\ (vret'.op = "pop" /\ vret'.arg \in MandatoryNames) =>
          (vret'.outcome = "IncorrectVariableNameError" /\ vset' = vset)
    /\ vset.built => vset'.roles = vset.roles

\* C8: in a required-roles set, pop of a variable holding a mandatory role
\* fails and removes nothing; after any sequence of add_var and pop every
\* mandatory-role accessor keeps its construction-time value and names a
\* variable present in the set.
C8_MandatoryKept == [](RolesResolve) /\ [][MandatoryPopRejected]_vars

\* a pop of the date role has just been refused on a set that holds more
\* than its mandatory variables
C8_Witness ==
    /\ vset.built /\ HasRoles(vset.cls)
    /\ vret = Outcome("pop", "DATE", "IncorrectVariableNameError")
    /\ Len(vset.elements) > Cardinality(MandatoryNames)
    /\ "DATE" \in Names(vset)

\* ---- C9
ProjectionNames == {"loading_variables", "storing_variables", "saving_variables"}

\* C9: a set built with hour or provider absent is valid, and the hour and
\* provider roles are set identically (same presence flags, same names) in
\* its loading_variables, storing_variables and saving_variables.
C9_AbsentRoleProjections ==
    (vset.built /\ vret.op \in ProjectionNames) =>
        /\ vret.outcome = None
        /\ proj.built
        /\ proj.has_hour = vset.has_hour
        /\ proj.has_provider = vset.has_provider
        /\ proj.roles.hour = vset.roles.hour
        /\ proj.roles.provider = vset.roles.provider

\* ---- C20
\* the leaf inputs of a variable: itself when it is not derived
RECURSIVE LeavesOf(_)
LeavesOf(name) ==
    IF is_feature(name)
    THEN UNION {LeavesOf(required_vars(name)[k]) : k \in DOMAIN required_vars(name)}
    ELSE {name}

\* C20: loading_variables contains exactly the non-derived variables to
\* read from the source: every declared non-derived variable and the leaf
\* inputs of every declared derived variable; it contains no derived
\* variable and each variable name appears once.
C20_LoadingLeaves ==
    (vset.built /\ vret.op = "loading_variables") =>
        /\ vret.outcome = None
        /\ proj.built
        /\ Names(proj) = UNION {LeavesOf(name) : name \in Names(vset)}
        /\ \A name \in Names(proj) : ~is_feature(name)
        /\ ~HasDuplicates(proj.elements)

\* ---- C29
\* a projection evaluated again on the same declared set, possibly by
\* another run of the program
EvaluatedAgain(op) == vret.op = op /\ vret'.op = op /\ vset' = vset

\* C29: loading_variables and storing_variables list the variables in an
\* order that is a function of the declared variable set alone: two
\* evaluations on the same declared set, in the same or in different runs,
\* give the same sequence of variable names.
C29_ProjectionOrderStable ==
    [][(EvaluatedAgain("loading_variables") \/ EvaluatedAgain("storing_variables"))
          => proj'.elements = proj.elements]_vars

(***************************************************************************)
(* Storer (core/storers.py) and WaterMass.flag_in_storer (water_masses.py) *)
(*                                                                         *)
(* A DataFrame is an object: two Storers may hold the same one.  frames[f] *)
(* is the DataFrame object f, with its column names and its index; the     *)
(* values of the cells are not represented.  A Storer's variable set is    *)
(* deep-copied at construction, so each Storer holds its own.              *)
(***************************************************************************)

MaxStorers == 3     \* Storer objects explored (two exist at the start)
MaxIndex == 1       \* rows of the first table at the start

FullRoles ==
    [expocode |-> "EXPOCODE", provider |-> "PROVIDER", date |-> "DATE",
     year |-> "YEAR", month |-> "MONTH", day |-> "DAY", hour |-> "HOUR",
     latitude |-> "LATITUDE", longitude |-> "LONGITUDE", depth |-> "DEPH"]

\* the StoringVariablesSet of a loaded storer
StorerVariablesPool ==
    {BaseRequiredVarsSet__init__("StoringVariablesSet", FullRoles, <<>>, extras).set :
        extras \in {<<>>, <<"TEMP">>}}

\* label of a variable (BaseVar.label) is its name
Labels(variables) == Names(variables)

\* Storer.__init__ : the table is kept as given, the variables are copied
Storer__init__(data, category, providers, variables) ==
    [data |-> data, category |-> category, providers |-> providers,
     variables |-> variables]

\* a table as a loader builds it: one column per variable, a RangeIndex
LoadedFrame(variables, n) ==
    [columns |-> variables.elements, index |-> [i \in 1..n |-> i - 1]]

\* dataframe[name] = data
SetColumn(frame, name) ==
    IF name \in Range(frame.columns) THEN frame
    ELSE [frame EXCEPT !.columns = Append(@, name)]

\* dataframe.pop(name)
PopColumn(frame, name) ==
    [frame EXCEPT !.columns = SelectSeq(@, LAMBDA c : c # name)]

\* dataframe.loc[index, :] and dataframe.loc[mask, :] : a new table
LocIndex(frame, keep) ==
    [frame EXCEPT !.index = SelectSeq(@, LAMBDA i : i \in keep)]

\* mutation: the rows of the second table are left out
ConcatFirstOnly(a, b) ==
    [columns |-> a.columns \o SelectSeq(b.columns, LAMBDA c : c \notin Range(a.columns)),
     index |-> [i \in 1..Len(a.index) |-> i - 1]]

\* pd.concat([a, b], ignore_index=True)
Concat(a, b) ==
    [columns |-> a.columns \o SelectSeq(b.columns, LAMBDA c : c \notin Range(a.columns)),
     index |-> [i \in 1..(Len(a.index) + Len(b.index)) |-> i - 1]]

\* what the last call did: "ok", or the class of the error it raised
Returned(error) == IF error = None THEN "ok" ELSE error

\* mutation: any two sets compare equal
VariableSet__eq__anything(a, b) == TRUE

\* VariableSet.__eq__
VariableSet__eq__(a, b) ==
    /\ Len(a.elements) = Len(b.elements)
    /\ Names(a) = Names(b)

NoOperands == [self |-> 0, other |-> 0]

StorerInit ==
    /\ \E v1, v2 \in StorerVariablesPool, c2 \in {"in_situ", "float"} :
          /\ "TEMP" \in Names(v1)
          /\ frames = <<LoadedFrame(v1, MaxIndex), LoadedFrame(v2, 1)>>
          /\ storers = <<Storer__init__(1, "in_situ", <<"P1">>, v1),
                         Storer__init__(2, c2, <<"P2">>, v2)>>
    /\ sret = None
    /\ operands = NoOperands

StorerIdle ==
    /\ frames = <<>>
    /\ storers = <<>>
    /\ sret = None
    /\ operands = NoOperands

\* Storer.add_feature
add_feature ==
    /\ \E k \in DOMAIN storers, name \in {"TEMP", "WM"} :
          LET self == storers[k]
              added == add_var(self.variables, name)
          IN  /\ sret' = Returned(added.error)
              /\ IF added.error # None
                 THEN UNCHANGED <<storers, frames>>
                 ELSE /\ storers' = [storers EXCEPT ![k].variables = added.set]
                      /\ frames' = [frames EXCEPT ![self.data] = SetColumn(@, name)]
    /\ operands' = NoOperands
    /\ UNCHANGED notStorer

\* Storer.pop : the variable is popped first, then the column
Storer_pop ==
    /\ \E k \in DOMAIN storers, variable_name \in {"TEMP", "WM", "DATE", "SALT"} :
          LET self == storers[k]
              popped == pop(self.variables, variable_name)
          IN  IF popped.error # None
              THEN /\ sret' = Returned(popped.error)
                   /\ UNCHANGED <<storers, frames>>
              ELSE /\ storers' = [storers EXCEPT ![k].variables = popped.set]
                   /\ IF variable_name \in Range(frames[self.data].columns)
                      THEN /\ frames' = [frames EXCEPT ![self.data] = PopColumn(@, variable_name)]
                           /\ sret' = Returned(None)
                      ELSE /\ frames' = frames
                           /\ sret' = Returned("KeyError")
    /\ operands' = NoOperands
    /\ UNCHANGED notStorer

\* Storer.__add__
Storer__add__ ==
    /\ \E k, o \in DOMAIN storers :
          LET self == storers[k]
              other == storers[o]
          IN  /\ operands' = [self |-> k, other |-> o]
              /\ IF ~VariableSet__eq__(self.variables, other.variables)
                 THEN /\ sret' = Returned("IncompatibleVariableSetsError")
                      /\ UNCHANGED <<storers, frames>>
                 ELSE IF self.category # other.category
                 THEN /\ sret' = Returned("IncompatibleCategoriesError")
                      /\ UNCHANGED <<storers, frames>>
                 ELSE /\ Len(storers) < MaxStorers
                      /\ \E concat_providers \in SetOrders(Range(self.providers \o other.providers)) :
                            /\ frames' = Append(frames, Concat(frames[self.data], frames[other.data]))
                            /\ storers' = Append(storers,
                                   Storer__init__(Len(frames) + 1, self.category,
                                                  concat_providers, self.variables))
                      /\ sret' = Returned(None)
    /\ UNCHANGED notStorer

\* Storer.from_constraints : the constraints keep some of the rows
from_constraints ==
    /\ Len(storers) < MaxStorers
    /\ \E k \in DOMAIN storers :
          \E keep \in SUBSET Range(frames[storers[k].data].index) :
             LET storer == storers[k]
             IN  /\ frames' = Append(frames, LocIndex(frames[storer.data], keep))
                 /\ storers' = Append(storers,
                        Storer__init__(Len(frames) + 1, storer.category,
                                       storer.providers, storer.variables))
    /\ sret' = Returned(None)
    /\ operands' = NoOperands
    /\ UNCHANGED notStorer

\* Storer.slice_using_index
slice_using_index ==
    /\ Len(storers) < MaxStorers
    /\ \E k \in DOMAIN storers :
          \E index \in SUBSET Range(frames[storers[k].data].index) :
             LET self == storers[k]
             IN  /\ frames' = Append(frames, LocIndex(frames[self.data], index))
                 /\ storers' = Append(storers,
                        Storer__init__(Len(frames) + 1, self.category,
                                       self.providers, self.variables))
    /\ sret' = Returned(None)
    /\ operands' = NoOperands
    /\ UNCHANGED notStorer

\* WaterMass.flag_in_storer : the returned Storer is built on the DataFrame
\* object of the original one
flag_in_storer ==
    /\ \E k \in DOMAIN storers, water_mass_variable_name \in {"WM", "TEMP"},
          ptemperature_name \in {"TEMP", "LATITUDE"},
          create_var_if_missing \in BOOLEAN :
          LET original_storer == storers[k]
              full_data == original_storer.data
              new_storer == Storer__init__(full_data, original_storer.category,
                                           original_storer.providers,
                                           original_storer.variables)
              added == add_var(new_storer.variables, water_mass_variable_name)
          IN  IF ptemperature_name \notin Names(original_storer.variables)
              THEN /\ sret' = Returned("IncorrectVariableNameError")
                   /\ UNCHANGED <<storers, frames>>
              ELSE IF water_mass_variable_name \in Names(original_storer.variables)
              THEN IF water_mass_variable_name \notin Range(frames[full_data].columns)
                   THEN /\ sret' = Returned("KeyError")
                        /\ UNCHANGED <<storers, frames>>
                   ELSE /\ Len(storers) < MaxStorers
                        /\ frames' = [frames EXCEPT ![full_data] =
                                          SetColumn(@, water_mass_variable_name)]
                        /\ storers' = Append(storers, new_storer)
                        /\ sret' = Returned(None)
              ELSE IF ~create_var_if_missing
              THEN /\ sret' = Returned("ValueError")
                   /\ UNCHANGED <<storers, frames>>
              ELSE /\ Len(storers) < MaxStorers
                   /\ frames' = [frames EXCEPT ![full_data] =
                                     SetColumn(@, water_mass_variable_name)]
                   /\ storers' = Append(storers,
                                        [new_storer EXCEPT !.variables = added.set])
                   /\ sret' = Returned(None)
    /\ operands' = NoOperands
    /\ UNCHANGED notStorer

StorerNext ==
    \/ add_feature
    \/ Storer_pop
    \/ Storer__add__
    \/ from_constraints
    \/ slice_using_index
    \/ flag_in_storer

\* ---- C10
ColumnsAreLabels ==
    \A k \in DOMAIN storers :
        /\ Range(frames[storers[k].data].columns) = Labels(storers[k].variables)
        /\ Len(frames[storers[k].data].columns) = Len(storers[k].variables.elements)

FailedCallChangesNothing ==
    sret' \in {"DuplicatedVariableNameError", "IncorrectVariableNameError"}
        => (frames' = frames /\ storers' = storers)

\* C10: for every Storer, after any sequence of add_feature, pop,
\* concatenation, constraint application and index slicing (operations on a
\* Storer built from it included), the table's columns are exactly the labels
\* of the Storer's variable set; a failed add_feature (duplicate name) or a
\* failed pop (mandatory or unknown name) changes neither.
C10_ColumnsAreLabels ==
    [](ColumnsAreLabels) /\ [][FailedCallChangesNothing]_vars

\* ---- Storer.__add__ on two loaded Storers

\* the variable sets of the operands: the same variables may come in another order
AddVariablesPool ==
    {BaseRequiredVarsSet__init__("StoringVariablesSet", FullRoles, <<>>, extras).set :
        extras \in {<<>>, <<"TEMP">>, <<"TEMP", "WM">>, <<"WM", "TEMP">>}}

AddInit ==
    /\ \E v1, v2 \in AddVariablesPool, c2 \in {"in_situ", "float"},
          p1 \in {<<"P1">>, <<"P1", "P2">>}, p2 \in {<<"P1">>, <<"P2">>},
          n2 \in 0..MaxIndex :
          /\ frames = <<LoadedFrame(v1, MaxIndex), LoadedFrame(v2, n2)>>
          /\ storers = <<Storer__init__(1, "in_situ", p1, v1),
                         Storer__init__(2, c2, p2, v2)>>
    /\ sret = None
    /\ operands = NoOperands

AddNext == Storer__add__

\* ---- C11, C12
\* the two sets hold the same variables, each as many times
SameVariables(a, b) ==
    \A name \in Names(a) \cup Names(b) :
        Cardinality({i \in DOMAIN a.elements : a.elements[i] = name})
            = Cardinality({i \in DOMAIN b.elements : b.elements[i] = name})

Added == operands # NoOperands
Self == storers[operands.self]
Other == storers[operands.other]
Sum == storers[Len(storers)]
RowCount(storer) == Len(frames[storer.data].index)

\* what an __add__ step appends to the Storers, if anything
Produced == SubSeq(storers', Len(storers) + 1, Len(storers'))

\* C11: concatenating two Storers with identical variable sets and identical
\* categories yields a new Storer whose row count is the sum of the operands'
\* row counts, whose provider list is the union of their provider lists
\* without duplicates, and whose variable set and category are the operands'.
C11_ConcatSum ==
    [][(operands' # NoOperands /\ operands'.self \in DOMAIN storers
            /\ operands'.other \in DOMAIN storers /\ sret' = "ok") =>
          LET self == storers[operands'.self]
              other == storers[operands'.other]
          IN  /\ Len(Produced) = 1
              /\ SameVariables(self.variables, other.variables)
              /\ self.category = other.category
              /\ Len(frames'[Produced[1].data].index)
                    = RowCount(self) + RowCount(other)
              /\ Range(Produced[1].providers)
                    = Range(self.providers) \cup Range(other.providers)
              /\ Len(Produced[1].providers) = Cardinality(Range(Produced[1].providers))
              /\ SameVariables(Produced[1].variables, self.variables)
              /\ Produced[1].category = self.category
              /\ \A k \in DOMAIN storers :
                    storers'[k] = storers[k] /\ frames'[k] = frames[k]]_vars

\* two different Storers with a provider in common and rows on both sides
\* have been added
C11_Witness ==
    /\ Added /\ sret = "ok"
    /\ operands.self # operands.other
    /\ Range(Self.providers) \cap Range(Other.providers) # {}
    /\ Range(Self.providers) # Range(Other.providers)
    /\ RowCount(Self) > 0 /\ RowCount(Other) > 0
    /\ Self.variables.elements # Other.variables.elements
    /\ RowCount(Sum) = RowCount(Self) + RowCount(Other)

MaxEvalRows == 2    \* rows of the observation and of the simulation table

\* BaseMetric._eval_vars
_eval_vars == <<"TEMP", "PSAL">>

\* the columns a Storer may have; DEPH is not evaluated
EvalColumnsPool == {<<"DEPH", "TEMP", "PSAL">>, <<"DEPH", "TEMP">>}

EvalRowPool(columns, values) ==
    {row \in [Range(columns) -> values \cup {5}] :
        /\ row["DEPH"] = 5
        /\ \A c \in Range(columns) \ {"DEPH"} : row[c] \in values}

EvalStorerPool(values) ==
    UNION {[variables : {columns},
            rows : SeqsUpTo(EvalRowPool(columns, values), MaxEvalRows)] :
              columns \in EvalColumnsPool}

\* DataFrame.filter(labels, axis=1) : the listed columns that exist, as listed
Filter(storer, labels) ==
    LET kept == SelectSeq(labels, LAMBDA l : l \in Range(storer.variables))
    IN  [columns |-> kept,
         rows |-> [i \in DOMAIN storer.rows |->
                      [c \in Range(kept) |-> storer.rows[i][c]]]]

\* DataFrame.shape
shape(df) == <<Len(df.rows), Len(df.columns)>>

\* str(shape)
ShapeStr(s) == "(" \o ToString(s[1]) \o ", " \o ToString(s[2]) \o ")"

\* the error message: the first piece is an f-string, the second one is not
error_msg(obs_df, sim_df) ==
    <<"DataFrame shapes don't match(observations: ", ShapeStr(shape(obs_df)), " ",
      "- simulations: {sim_df.shape}) -> make sure both storer have ",
      "the variables to evaluate on">>

\* df.isna().all(axis=1)
IsnaAll(df) ==
    [i \in DOMAIN df.rows |-> \A c \in Range(df.columns) : IsNaN(df.rows[i][c])]

\* mutation: a row is left out only when both sides are entirely NaN
NansBoth(obs_df, sim_df) ==
    [i \in DOMAIN obs_df.rows |-> IsnaAll(obs_df)[i] /\ IsnaAll(sim_df)[i]]

\* nans = obs_df.isna().all(axis=1) | sim_df.isna().all(axis=1)
Nans(obs_df, sim_df) ==
    [i \in DOMAIN obs_df.rows |-> IsnaAll(obs_df)[i] \/ IsnaAll(sim_df)[i]]

\* positions of the rows of df[~nans]
Kept(nans) == {i \in DOMAIN nans : ~nans[i]}

RECURSIVE SumOver(_, _)
SumOver(f, S) ==
    IF S = {} THEN 0
    ELSE LET x == CHOOSE y \in S : TRUE IN f[x] + SumOver(f, S \ {x})

\* mean over the rows, NaN skipped (DataFrame.mean); NaN when nothing is left
MeanOver(f, S) ==
    LET valid == {i \in S : ~IsNaN(f[i])}
    IN  IF valid = {} THEN NaNFrac
        ELSE Frac(SumOver(f, valid), Cardinality(valid))

\* elementwise a - b
Minus(a, b) == IF IsNaN(a) \/ IsNaN(b) THEN NaN ELSE a - b
Square(a) == IF IsNaN(a) THEN NaN ELSE a * a

\* Bias._eval : mean(simulations - observations), per column
Bias_eval(observations, simulations, rows) ==
    [c \in Range(observations.columns) |->
        MeanOver([i \in rows |-> Minus(simulations.rows[i][c], observations.rows[i][c])],
                 rows)]

\* RMSE._eval : sqrt(mean((observations - simulations)^2)), per column;
\* the value under the square root is kept
RMSE_eval(observations, simulations, rows) ==
    [c \in Range(observations.columns) |->
        MeanOver([i \in rows |->
                     Square(Minus(observations.rows[i][c], simulations.rows[i][c]))],
                 rows)]

NotEvaluated ==
    [kind |-> "None", metric_name |-> "None", message |-> <<>>, rows |-> {},
     result |-> <<>>]

\* BaseMetric.evaluate_storers
evaluate_storers(metric_name, obs_storer, sim_storer) ==
    IF \E k \in DOMAIN _eval_vars :
          \/ _eval_vars[k] \notin Range(obs_storer.variables)
          \/ _eval_vars[k] \notin Range(sim_storer.variables)
    THEN [NotEvaluated EXCEPT !.kind = "IncorrectVariableNameError",
                              !.metric_name = metric_name]
    ELSE LET obs_df == Filter(obs_storer, _eval_vars)
             sim_df == Filter(sim_storer, _eval_vars)
             nans == Nans(obs_df, sim_df)
         IN  IF shape(obs_df) # shape(sim_df)
             THEN [NotEvaluated EXCEPT !.kind = "IncomparableStorersError",
                                       !.metric_name = metric_name,
                                       !.message = error_msg(obs_df, sim_df)]
             ELSE [kind |-> "Series", metric_name |-> metric_name, message |-> <<>>,
                   rows |-> Kept(nans),
                   result |-> IF metric_name = "RMSE"
                              THEN RMSE_eval(obs_df, sim_df, Kept(nans))
                              ELSE Bias_eval(obs_df, sim_df, Kept(nans))]

MetricInit ==
    /\ observations_storer \in EvalStorerPool({NaN, 1})
    /\ simulations_storer \in EvalStorerPool({NaN, 3})
    /\ evaluated = NotEvaluated

MetricIdle ==
    /\ observations_storer = <<>>
    /\ simulations_storer = <<>>
    /\ evaluated = NotEvaluated

EvaluateStorers ==
    /\ \E metric_name \in {"RMSE", "Bias"} :
          evaluated' = evaluate_storers(metric_name, observations_storer,
                                        simulations_storer)
    /\ UNCHANGED <<observations_storer, simulations_storer, notMetric>>

MetricNext == EvaluateStorers

\* ---- C13
Evaluated == evaluated.kind # "None"

\* the row is entirely NaN over the compared variables
EntirelyNaN(storer, i) ==
    \A k \in DOMAIN _eval_vars : IsNaN(storer.rows[i][_eval_vars[k]])

OneSidedNaN(i) ==
    EntirelyNaN(observations_storer, i) # EntirelyNaN(simulations_storer, i)

\* C13, as stated: evaluate_storers excludes exactly the rows in which both
\* frames are entirely NaN over the compared variables; a row entirely NaN
\* on one side only is retained.
C13_ExcludesBothNaN ==
    evaluated.kind = "Series" =>
        evaluated.rows = {i \in DOMAIN observations_storer.rows :
                             ~(/\ EntirelyNaN(observations_storer, i)
                               /\ EntirelyNaN(simulations_storer, i))}

\* C13, amended: evaluate_storers excludes exactly the rows in which the
\* observation frame or the simulation frame is entirely NaN over the
\* compared variables (a row entirely NaN on one side only is excluded too);
\* a row with a value on both sides is retained.
C13_ExcludesEitherNaN ==
    evaluated.kind = "Series" =>
        evaluated.rows = {i \in DOMAIN observations_storer.rows :
                             /\ ~EntirelyNaN(observations_storer, i)
                             /\ ~EntirelyNaN(simulations_storer, i)}

\* one row entirely NaN on one side only was left out, another row with a
\* NaN cell on each side was kept
C13_Witness ==
    /\ evaluated.kind = "Series"
    /\ \E i, j \in DOMAIN observations_storer.rows :
          /\ OneSidedNaN(i) /\ i \notin evaluated.rows
          /\ j \in evaluated.rows
          /\ \E a, b \in Range(_eval_vars) :
                /\ IsNaN(observations_storer.rows[j][a])
                /\ IsNaN(simulations_storer.rows[j][b])

\* ---- C14
\* shape of the table restricted to the compared variables
RestrictedShape(storer) ==
    <<Len(storer.rows), Cardinality(Range(storer.variables) \cap Range(_eval_vars))>>

\* C14: evaluate_storers raises the incomparable-storers error whenever the
\* two frames restricted to the compared variables have different shapes,
\* computes no metric, and the message names both shapes.
C14_ShapeGuard ==
    (Evaluated /\ RestrictedShape(observations_storer)
                    # RestrictedShape(simulations_storer)) =>
        /\ evaluated.kind = "IncomparableStorersError"
        /\ evaluated.result = <<>>
        /\ ShapeStr(RestrictedShape(observations_storer)) \in Range(evaluated.message)
        /\ ShapeStr(RestrictedShape(simulations_storer)) \in Range(evaluated.message)

(***************************************************************************)
(* SelectiveDataSource.select / load_all, NearestNeighborStrategy, Mask    *)
(*   (comparison/matching.py)                                              *)
(*                                                                         *)
(* The grid has jdm rows and idm columns; the cell (r, c) has the flat     *)
(* index r * idm + c.  Of the loaded table only the index and one value    *)
(* column are represented; the value tells the file, the cell and the      *)
(* level a row was read from.                                              *)
(***************************************************************************)

MaxRefObs == 2      \* observations of the reference
MaxFiles == 2       \* simulation files

jdm == 2
idm == 3
Levels == 2         \* file.fieldlevels

Flats == 0..(jdm * idm - 1)

\* the grid file: get_coord(latitude), get_coord(longitude), flattened
GridLat(flat) == 10 * (flat \div idm)
GridLon(flat) == 10 * (flat % idm)

\* an observation: its date, its position; (10, 15) is as far from the
\* cell (1, 1) as from the cell (1, 2)
ObsPool == [date : {1, 2}, pos : {<<0, 0>>, <<10, 15>>}]

\* the index of the k-th observation of the reference is 10, 11, ...
ReferencePool ==
    {[k \in DOMAIN s |-> [idx |-> 9 + k, date |-> s[k].date,
                          lat |-> s[k].pos[1], lon |-> s[k].pos[2]]] :
        s \in SeqsUpTo(ObsPool, MaxRefObs)}

\* a file: its date, and the cells whose rows the constraints and the NaN
\* policy of the loader remove
FilePool == {[date |-> 1, removed |-> {}], [date |-> 1, removed |-> {4}],
             [date |-> 3, removed |-> {}]}

Dist2(obs, flat) ==
    (obs.lat - GridLat(flat)) * (obs.lat - GridLat(flat))
        + (obs.lon - GridLon(flat)) * (obs.lon - GridLon(flat))

Nearest(obs) ==
    {f \in Flats : \A g \in Flats : Dist2(obs, f) <= Dist2(obs, g)}

SetMin(S) == CHOOSE x \in S : \A y \in S : x <= y
SetMax(S) == CHOOSE x \in S : \A y \in S : x >= y

\* NearestNeighborStrategy.get_closest_indexes : a series indexed as the
\* observations; which of two equally near points kneighbors returns is
\* not specified, tie tells it
get_closest_indexes(observations_lat_lon, tie) ==
    [k \in DOMAIN observations_lat_lon |->
        [index |-> observations_lat_lon[k].idx,
         value |-> IF tie = "low" THEN SetMin(Nearest(observations_lat_lon[k]))
                   ELSE SetMax(Nearest(observations_lat_lon[k]))]]

\* SelectiveDataSource.get_x_y_indexes : meshgrid(range(idm), range(jdm)),
\* the second array (rows) is named x, the first one (columns) is named y
x_coords_series(flat) == flat \div idm
y_coords_series(flat) == flat % idm

indexes_2d(r, c) == r * idm + c

\* sorted enumeration of a set of integers
RECURSIVE Sorted(_)
Sorted(S) ==
    IF S = {} THEN <<>> ELSE <<SetMin(S)>> \o Sorted(S \ {SetMin(S)})

\* Mask.__init__ and the mask setter: _index = index_2d[mask].flatten()
Mask__init__(mask_2d) ==
    [mask |-> mask_2d,
     index |-> Sorted({indexes_2d(cell[1], cell[2]) : cell \in mask_2d})]

\* mutation: rows and columns are exchanged when the mask is filled
select_transposed(data_slice, tie) ==
    LET index == get_closest_indexes(data_slice, tie)
        to_keep == {<<y_coords_series(index[k].value) % jdm,
                      x_coords_series(index[k].value)>> : k \in DOMAIN index}
    IN  [mask |-> Mask__init__(to_keep), match |-> Match__init__(index)]

\* SelectiveDataSource.select : to_keep is the set of its True cells
select(data_slice, tie) ==
    LET index == get_closest_indexes(data_slice, tie)
        to_keep == {<<x_coords_series(index[k].value),
                      y_coords_series(index[k].value)>> : k \in DOMAIN index}
    IN  [mask |-> Mask__init__(to_keep), match |-> Match__init__(index)]

\* self.reference[self.reference[date].dt.date == date]
DateSlice(date) == SelectSeq(reference, LAMBDA o : o.date = date)

\* value of the row read in the n-th file for a cell at a level
Value(n, flat, level) == 100 * n + 10 * flat + level

\* SelectiveABFileLoader.load : the levels one after the other, each with
\* the cells of the mask in the order of mask.index; then the constraints
\* and remove_nan_rows
load(n, mask) ==
    LET kept == SelectSeq(mask.index, LAMBDA f : f \notin filepaths[n].removed)
    IN  Chain([level \in 1..Levels |->
                 [k \in DOMAIN kept |->
                     [idx |-> kept[k], val |-> Value(n, kept[k], level)]]])

\* the loop of load_all over filepaths[n..], datas is what it appends
RECURSIVE Datas(_, _)
Datas(n, tie) ==
    IF n > Len(filepaths) THEN <<>>
    ELSE LET data_slice == DateSlice(filepaths[n].date)
             sel == select(data_slice, tie)
             sim_rows == load(n, sel.mask)
         IN  (IF data_slice = <<>> THEN <<>>
              ELSE <<Match_match(sel.match, sim_rows)>>) \o Datas(n + 1, tie)

NotLoaded == [kind |-> "None", rows |-> <<>>]

\* SelectiveDataSource.load_all : pd.concat of an empty list raises
load_all(tie) ==
    LET datas == Datas(1, tie)
    IN  IF datas = <<>> THEN [kind |-> "ValueError", rows |-> <<>>]
        ELSE [kind |-> "Storer", rows |-> Chain(datas)]

NotSelected ==
    [called |-> FALSE, data_slice |-> <<>>, mask |-> {}, index |-> <<>>,
     index_link |-> <<>>]

SelectInit ==
    /\ reference \in ReferencePool
    /\ filepaths \in SeqsUpTo(FilePool, MaxFiles)
    /\ selected = NotSelected
    /\ loaded_all = NotLoaded

SelectIdle ==
    /\ reference = <<>>
    /\ filepaths = <<>>
    /\ selected = NotSelected
    /\ loaded_all = NotLoaded

Select ==
    /\ \E date \in {1, 2}, tie \in {"low", "high"} :
          LET data_slice == DateSlice(date)
              sel == select(data_slice, tie)
          IN  /\ data_slice # <<>>
              /\ selected' = [called |-> TRUE, data_slice |-> data_slice,
                              mask |-> sel.mask.mask, index |-> sel.mask.index,
                              index_link |-> sel.match]
    /\ UNCHANGED <<reference, filepaths, loaded_all, notSelect>>

LoadAll ==
    /\ \E tie \in {"low", "high"} : loaded_all' = load_all(tie)
    /\ UNCHANGED <<reference, filepaths, selected, notSelect>>

SelectNext ==
    \/ Select
    \/ LoadAll

\* the cells of the grid
Cells == (0..(jdm - 1)) \X (0..(idm - 1))

\* the cells chosen as nearest neighbour by an observation of the slice
ChosenCells ==
    {cell \in Cells :
        \E k \in DOMAIN selected.index_link :
            indexes_2d(cell[1], cell[2]) = selected.index_link[k].sim_index}

\* C15: select builds a Mask whose True cells are exactly the cells chosen
\* as nearest neighbour by at least one observation of the slice, whose flat
\* index lists exactly the flat indices of those cells, and the Match maps
\* every observation index of the slice to the flat index of its chosen
\* cell, which is a True cell of the Mask.
C15_SelectMask ==
    selected.called =>
        /\ selected.mask = ChosenCells
        /\ Range(selected.index)
              = {indexes_2d(cell[1], cell[2]) : cell \in selected.mask}
        /\ Len(selected.index) = Cardinality(selected.mask)
        /\ Len(selected.index_link) = Len(selected.data_slice)
        /\ \A k \in DOMAIN selected.data_slice :
              /\ selected.index_link[k].obs_index = selected.data_slice[k].idx
              /\ selected.index_link[k].sim_index
                    \in Nearest(selected.data_slice[k])
              /\ selected.index_link[k].sim_index \in Range(selected.index)

\* the two observations of the slice chose the same cell, the cell (1, 2)
C15_Witness ==
    /\ selected.called
    /\ Len(selected.data_slice) = 2
    /\ selected.mask = {<<1, 2>>}
    /\ selected.index = <<indexes_2d(1, 2)>>

\* the rows of the loaded Storer keyed by the index of an observation
RowsOf(obs) == SelectSeq(loaded_all.rows, LAMBDA r : r.idx = obs.idx)

\* the values the files of the date of an observation hold at a cell, for
\* the rows their loader keeps
CellValues(obs, flat) ==
    {Value(n, flat, level) : n \in {m \in DOMAIN filepaths :
                                        /\ filepaths[m].date = obs.date
                                        /\ flat \notin filepaths[m].removed},
                            level \in 1..Levels}

\* C16: load_all handles the files one date at a time: a file whose date
\* matches no observation contributes no row, an observation whose date has
\* no file contributes no row, every other observation receives the rows of
\* its nearest cell keyed by its own index, and the result is a Storer.
C16_LoadAllPerDate ==
    loaded_all.kind # "None" =>
        /\ loaded_all.kind = "Storer"
        /\ \A r \in Range(loaded_all.rows) :
              \E k \in DOMAIN reference : reference[k].idx = r.idx
        /\ \A k \in DOMAIN reference :
              \E flat \in Nearest(reference[k]) :
                  /\ {r.val : r \in Range(RowsOf(reference[k]))}
                        = CellValues(reference[k], flat)
                  /\ Len(RowsOf(reference[k]))
                        = Cardinality(CellValues(reference[k], flat))

(***************************************************************************)
(* Interpolator.interpolate_storer (comparison/interpolation.py)           *)
(*                                                                         *)
(* The rows of Interpolator._storer are sim_data; _storer holds the rest   *)
(* of that Storer.  The index of the observations is 10, 11, ...           *)
(***************************************************************************)

MaxObsRows == 3     \* rows of the observations Storer

StorerMeta(category, providers, variables) ==
    [category |-> category, providers |-> providers, variables |-> variables]

ObsDataPool ==
    {[k \in DOMAIN d |-> [name |-> 9 + k, DEPH |-> d[k]]] :
        d \in SeqsUpTo({NaN, -30, -7}, MaxObsRows)}

\* the profiles of the simulation Storer: one value for the constant column
ProfilesPool == {s \in SimDataPool : \A i \in DOMAIN s : s[i].SALT = 1}

\* Index.unique : the labels in the order of their first appearance
RECURSIVE unique(_)
unique(labels) ==
    IF labels = <<>> THEN <<>>
    ELSE unique(SubSeq(labels, 1, Len(labels) - 1))
         \o (IF \E i \in 1..(Len(labels) - 1) : labels[i] = labels[Len(labels)]
             THEN <<>> ELSE <<labels[Len(labels)]>>)

NoStorer(kind) ==
    [kind |-> kind, data |-> <<>>, category |-> None, providers |-> <<>>,
     variables |-> <<>>]

\* obs_data.loc[labels, :] raises KeyError when a label is missing; apply
\* calls interpolate on every row and lets its exception through
interpolate_storer(observations) ==
    LET obs_data == observations.data
        labels == unique([i \in DOMAIN sim_data |-> sim_data[i].idx])
        missing == {i \in DOMAIN labels :
                      \A k \in DOMAIN obs_data : obs_data[k].name # labels[i]}
        matching_index ==
            [i \in DOMAIN labels |->
                obs_data[CHOOSE k \in DOMAIN obs_data : obs_data[k].name = labels[i]]]
        interpolated_df == [i \in DOMAIN labels |-> interpolate(matching_index[i])]
        raised == {i \in DOMAIN labels : interpolated_df[i].kind # "Series"}
    IN  IF missing # {} THEN NoStorer("KeyError")
        ELSE IF raised # {} THEN NoStorer(interpolated_df[SetMin(raised)].kind)
        ELSE [kind |-> "Storer", data |-> interpolated_df,
              category |-> _storer.category, providers |-> _storer.providers,
              variables |-> _storer.variables]

IStorerInit ==
    /\ _storer = StorerMeta("float", <<"SIM">>, <<"DEPH", "TEMP", "SALT">>)
    /\ obs_to_interp \in
          {[data |-> d, category |-> c, providers |-> <<"OBS">>,
            variables |-> <<"DEPH", "TEMP">>] :
              d \in ObsDataPool, c \in {"in_situ", "float"}}
    /\ interpolated_storer = NoStorer("None")

IStorerIdle ==
    /\ _storer = StorerMeta(None, <<>>, <<>>)
    /\ obs_to_interp = [data |-> <<>>, category |-> None, providers |-> <<>>,
                     variables |-> <<>>]
    /\ interpolated_storer = NoStorer("None")

\* the Interpolator is built on a simulation Storer, nothing is interpolated yet
InterpProfiles ==
    /\ sim_data \in ProfilesPool
    /\ obs_row = [name |-> NaN, DEPH |-> NaN]
    /\ interpolated = NoOut

InterpolateStorer ==
    /\ interpolated_storer' = interpolate_storer(obs_to_interp)
    /\ UNCHANGED <<_storer, obs_to_interp, notIStorer>>

IStorerNext == InterpolateStorer

\* the rows of the returned Storer named after an observation
InterpolatedOf(obs) ==
    SelectSeq(interpolated_storer.data, LAMBDA r : r.name = obs.name)

\* C17: interpolate_storer returns a new Storer with exactly one
\* interpolated row for every observation index present in the simulation
\* Storer and none for the other observations, whose variables, category
\* and providers are those of the simulation Storer.
C17_OneRowPerIndex ==
    interpolated_storer.kind # "None" =>
        /\ interpolated_storer.kind = "Storer"
        /\ interpolated_storer.category = _storer.category
        /\ interpolated_storer.providers = _storer.providers
        /\ interpolated_storer.variables = _storer.variables
        /\ \A k \in DOMAIN obs_to_interp.data :
              Len(InterpolatedOf(obs_to_interp.data[k]))
                = IF \E i \in DOMAIN sim_data :
                        sim_data[i].idx = obs_to_interp.data[k].name
                  THEN 1 ELSE 0
        /\ \A r \in Range(interpolated_storer.data) :
              \E k \in DOMAIN obs_to_interp.data : obs_to_interp.data[k].name = r.name

(***************************************************************************)
(* Loaders: alias resolution and flag filtering                            *)
(*   (core/loaders/csv_loaders.py, netcdf_loaders.py, abfile_loaders.py,   *)
(*    core/variables/vars.py)                                              *)
(*                                                                         *)
(* The source (a csv table, a netCDF dataset, the fields of an abfile) is  *)
(* the set of its column names and its rows; a row holds a value for the   *)
(* four names, of which only those of the present columns are read.        *)
(***************************************************************************)

MaxSrcRows == 2     \* rows of the source

ColumnNames == {"X", "Xf", "Y", "Yf"}

SrcRowPool == [X : {1, 7}, Xf : {0, 1}, Y : {2}, Yf : {0, 1}]

SourcePool ==
    [columns : SUBSET ColumnNames, rows : SeqsUpTo(SrcRowPool, MaxSrcRows)]

\* an argument of set_aliases: a string, or an iterable of length 1 or 3
AliasArg(form, alias, flag_alias, flag_value) ==
    [form |-> form, alias |-> alias, flag_alias |-> flag_alias,
     flag_value |-> flag_value]

AliasArgsPool ==
    {<<AliasArg("3", "X", "Xf", {1}), AliasArg("str", "Y", None, {})>>,
     <<AliasArg("3", "Y", "Yf", {1}), AliasArg("1", "X", None, {})>>,
     <<AliasArg("str", "Y", None, {}), AliasArg("3", "X", "Xf", {1})>>,
     <<AliasArg("3", "X", "Xf", {1})>>}

\* ExistingVar.set_aliases : one (alias, flag_alias, flag_value) per
\* argument, in the order of the arguments
set_aliases(var, args) ==
    [var EXCEPT !.aliases =
        [k \in DOMAIN args |->
            IF args[k].form = "3"
            THEN [alias |-> args[k].alias, flag_alias |-> args[k].flag_alias,
                  flag_value |-> args[k].flag_value]
            ELSE [alias |-> args[k].alias, flag_alias |-> None,
                  flag_value |-> {}]]]

\* ExistingVar.__init__ : no alias yet
ExistingVar == [aliases |-> <<>>, default |-> -1]

\* the position of the alias at which the loop over var.aliases stops
Present(var, columns) ==
    {k \in DOMAIN var.aliases : var.aliases[k].alias \in columns}

Column(loader, used, values) ==
    [loader |-> loader, kind |-> "column", used |-> used, values |-> values]
NoColumn(loader, kind) ==
    [loader |-> loader, kind |-> kind, used |-> 0, values |-> <<>>]

\* CSVLoader._filter_flags : None (used = 0) when no alias is a column
CSVLoader_filter_flags(df, var) ==
    IF Present(var, df.columns) = {} THEN NoColumn("csv", "None")
    ELSE LET k == SetMin(Present(var, df.columns))
             a == var.aliases[k]
         IN  IF a.flag_alias # None /\ a.flag_alias \in df.columns
             THEN Column("csv", k,
                         [i \in DOMAIN df.rows |->
                             IF df.rows[i][a.flag_alias] \in a.flag_value
                             THEN df.rows[i][a.alias] ELSE NaN])
             ELSE Column("csv", k, [i \in DOMAIN df.rows |-> df.rows[i][a.alias]])

\* CSVLoader._format, for one variable: NaN becomes the default, a variable
\* without column gets a column of defaults
CSVLoader_format(df, var) ==
    LET values == CSVLoader_filter_flags(df, var)
    IN  IF values.kind = "None"
        THEN Column("csv", 0, [i \in DOMAIN df.rows |-> var.default])
        ELSE Column("csv", values.used,
                    [i \in DOMAIN df.rows |->
                        IF IsNaN(values.values[i]) THEN var.default
                        ELSE values.values[i]])

\* NetCDFLoader._filter_flags
NetCDFLoader_filter_flags(nc_data, var) ==
    IF Present(var, nc_data.columns) = {} THEN NoColumn("netcdf", "None")
    ELSE LET k == SetMin(Present(var, nc_data.columns))
             a == var.aliases[k]
         IN  IF a.flag_alias # None /\ a.flag_alias \in nc_data.columns
             THEN Column("netcdf", k,
                         [i \in DOMAIN nc_data.rows |->
                             IF \E value \in a.flag_value :
                                    nc_data.rows[i][a.flag_alias] = value
                             THEN nc_data.rows[i][a.alias] ELSE NaN])
             ELSE Column("netcdf", k,
                         [i \in DOMAIN nc_data.rows |-> nc_data.rows[i][a.alias]])

\* NetCDFLoader._format, for one variable; _fill_missing gives a missing
\* variable a column of defaults
NetCDFLoader_format(nc_data, var) ==
    LET values == NetCDFLoader_filter_flags(nc_data, var)
    IN  IF values.kind = "None"
        THEN Column("netcdf", 0, [i \in DOMAIN nc_data.rows |-> var.default])
        ELSE Column("netcdf", values.used,
                    [i \in DOMAIN nc_data.rows |->
                        IF IsNaN(values.values[i]) THEN var.default
                        ELSE values.values[i]])

\* ABFileLoader._load_valid : None without flag, else the rows whose flag
\* field holds an accepted value
_load_valid(file, a) ==
    IF a.flag_alias = None THEN {}
    ELSE {i \in DOMAIN file.rows : file.rows[i][a.flag_alias] \in a.flag_value}

\* ABFileLoader._load_one_level, for one variable of in_dset
_load_one_level(file, var) ==
    IF Present(var, file.columns) = {}
    THEN Column("abfile", 0, [i \in DOMAIN file.rows |-> var.default])
    ELSE LET k == SetMin(Present(var, file.columns))
             a == var.aliases[k]
             field_valid == _load_valid(file, a)
         IN  Column("abfile", k,
                    [i \in DOMAIN file.rows |->
                        IF a.flag_alias # None /\ i \notin field_valid
                        THEN var.default ELSE file.rows[i][a.alias]])

\* ABFileLoader._get_grid_field : the flag is read with read_field(name)
_get_grid_field(grid_file, var) ==
    IF Present(var, grid_file.columns) = {}
    THEN NoColumn("grid", "ABFileLoadingError")
    ELSE LET k == SetMin(Present(var, grid_file.columns))
             a == var.aliases[k]
             is_valid == IF a.flag_alias = None THEN DOMAIN grid_file.rows
                         ELSE {i \in DOMAIN grid_file.rows :
                                 grid_file.rows[i][a.alias] \in a.flag_value}
         IN  Column("grid", k,
                    [i \in DOMAIN grid_file.rows |->
                        IF i \notin is_valid THEN var.default
                        ELSE grid_file.rows[i][a.alias]])

NotResolved == NoColumn(None, "NotCalled")

LoaderInit ==
    /\ source_df \in SourcePool
    /\ variable = ExistingVar
    /\ resolved = NotResolved

LoaderIdle ==
    /\ source_df = [columns |-> {}, rows |-> <<>>]
    /\ variable = ExistingVar
    /\ resolved = NotResolved

SetAliases ==
    /\ \E args \in AliasArgsPool : variable' = set_aliases(variable, args)
    /\ resolved' = NotResolved
    /\ UNCHANGED <<source_df, notLoader>>

CSVFormat ==
    /\ resolved' = CSVLoader_format(source_df, variable)
    /\ UNCHANGED <<source_df, variable, notLoader>>

NetCDFFormat ==
    /\ resolved' = NetCDFLoader_format(source_df, variable)
    /\ UNCHANGED <<source_df, variable, notLoader>>

\* the abfile is read only when it holds the flag fields of the aliases
FlagFieldsIn(file) ==
    \A k \in DOMAIN variable.aliases :
        (/\ variable.aliases[k].alias \in file.columns
         /\ variable.aliases[k].flag_alias # None)
            => variable.aliases[k].flag_alias \in file.columns

LoadOneLevel ==
    /\ FlagFieldsIn(source_df)
    /\ resolved' = _load_one_level(source_df, variable)
    /\ UNCHANGED <<source_df, variable, notLoader>>

GetGridField ==
    /\ FlagFieldsIn(source_df)
    /\ resolved' = _get_grid_field(source_df, variable)
    /\ UNCHANGED <<source_df, variable, notLoader>>

LoaderNext ==
    \/ SetAliases
    \/ CSVFormat
    \/ NetCDFFormat
    \/ LoadOneLevel
    \/ GetGridField

\* the alias the last call used
UsedAlias == variable.aliases[resolved.used]

\* the used alias has a flag column in the source
Flagged ==
    /\ resolved.kind = "column"
    /\ resolved.used > 0
    /\ UsedAlias.flag_alias # None
    /\ UsedAlias.flag_alias \in source_df.columns

\* C18: the alias a loader uses is the first one, in declaration order,
\* whose column is present in the source; if that alias has a flag column,
\* every row whose flag value is not among the accepted values gets the
\* variable's default value and stays in the table, so the number of rows
\* does not change.
C18_FirstAliasAndFlags ==
    (resolved.kind = "column" /\ Present(variable, source_df.columns) # {}) =>
        /\ resolved.used \in Present(variable, source_df.columns)
        /\ \A k \in Present(variable, source_df.columns) : resolved.used <= k
        /\ Len(resolved.values) = Len(source_df.rows)
        /\ Flagged =>
              \A i \in DOMAIN source_df.rows :
                  source_df.rows[i][UsedAlias.flag_alias] \notin UsedAlias.flag_value
                      => resolved.values[i] = variable.default

(***************************************************************************)
(* BaseLoader.remove_nan_rows (core/loaders/base.py)                       *)
(*   LoadingVariablesSet.to_remove_if_any_nan / to_remove_if_all_nan       *)
(*                                                                         *)
(* A row of the table is its index label and a value per column.  The      *)
(* table of a csv or netCDF file has a RangeIndex; the table of            *)
(* SelectiveABFileLoader.load carries the same labels once per level       *)
(* (matching.py: pd.concat(all_levels, axis=0, ignore_index=False)).       *)
(***************************************************************************)

MaxNanRows == 2     \* rows of the table

NanLabels == <<"A", "B", "C">>

LoaderVariablesPool ==
    {[k \in DOMAIN NanLabels |->
        [label |-> NanLabels[k], remove_if_nan |-> f[k][1],
         remove_if_all_nan |-> f[k][2]]] :
        f \in [DOMAIN NanLabels -> BOOLEAN \X BOOLEAN]}

NanRowPool == [idx : {0, 1}, A : {NaN, 1}, B : {NaN, 1}, C : {NaN, 1}]

\* LoadingVariablesSet.to_remove_if_any_nan
to_remove_if_any_nan(variables) ==
    {variables[k].label : k \in {j \in DOMAIN variables : variables[j].remove_if_nan}}

\* LoadingVariablesSet.to_remove_if_all_nan
to_remove_if_all_nan(variables) ==
    {variables[k].label :
        k \in {j \in DOMAIN variables : variables[j].remove_if_all_nan}}

\* BaseLoader.remove_nan_rows : df.drop(index=...) drops every row that
\* carries one of the labels; kept is the positions of the rows that stay
remove_nan_rows(variables, df) ==
    LET vars_to_remove_when_any_nan == to_remove_if_any_nan(variables)
        vars_to_remove_when_all_nan == to_remove_if_all_nan(variables)
        any_nans == {i \in DOMAIN df :
                        /\ vars_to_remove_when_any_nan # {}
                        /\ \E c \in vars_to_remove_when_any_nan : IsNaN(df[i][c])}
        all_nans == {i \in DOMAIN df :
                        /\ vars_to_remove_when_all_nan # {}
                        /\ \A c \in vars_to_remove_when_all_nan : IsNaN(df[i][c])}
        indexes_to_drop == {df[i].idx : i \in any_nans \cup all_nans}
    IN  [called |-> TRUE,
         kept |-> {i \in DOMAIN df : df[i].idx \notin indexes_to_drop}]

NotCleaned == [called |-> FALSE, kept |-> {}]

NanInit ==
    /\ loader_variables \in LoaderVariablesPool
    /\ nan_df \in SeqsUpTo(NanRowPool, MaxNanRows)
    /\ cleaned = NotCleaned

NanIdle ==
    /\ loader_variables = <<>>
    /\ nan_df = <<>>
    /\ cleaned = NotCleaned

RemoveNanRows ==
    /\ cleaned' = remove_nan_rows(loader_variables, nan_df)
    /\ UNCHANGED <<loader_variables, nan_df, notNan>>

NanNext == RemoveNanRows

\* the labels of the variables marked remove_when_nan, remove_when_all_nan
AnyMarked ==
    {loader_variables[k].label :
        k \in {j \in DOMAIN loader_variables : loader_variables[j].remove_if_nan}}
AllMarked ==
    {loader_variables[k].label :
        k \in {j \in DOMAIN loader_variables : loader_variables[j].remove_if_all_nan}}

\* C19: remove_nan_rows drops a row if and only if some variable marked
\* remove_when_nan is NaN in that row, or every variable marked
\* remove_when_all_nan is NaN in that row; a row in which one all-nan-marked
\* variable is NaN while another one has a value is kept.
C19_DropsExactlyNanRows ==
    cleaned.called =>
        \A i \in DOMAIN nan_df :
            i \notin cleaned.kept
                <=> \/ \E c \in AnyMarked : nan_df[i][c] = NaN
                    \/ /\ AllMarked # {}
                       /\ \A c \in AllMarked : nan_df[i][c] = NaN

(***************************************************************************)
(* Constraints of one field  (core/filtering.py)                           *)
(***************************************************************************)

FieldLabels == {"A", "LAT", "LON"}
DefaultsPool == {<<0, 9>>, <<1, 1>>}

NoFieldCall == [field_label |-> None, default_min |-> 0, default_max |-> 0]
TypeErrorRet == [kind |-> "TypeError", rows |-> <<>>]
TupleRet(a, b) == [kind |-> "tuple", rows |-> <<a, b>>]

MaxFieldRows == 1   \* rows of the table handed to apply_specific_constraint
FieldTablePool == {t \in TablePool : Len(t) <= MaxFieldRows}

FieldInit ==
    /\ boundaries = <<>>
    /\ supersets = <<>>
    /\ polygons = <<>>
    /\ dataframe \in FieldTablePool
    /\ ret = NoneRet
    /\ field_call = NoFieldCall
FieldIdle == field_call = NoFieldCall

\* Constraints.apply_specific_constraint : a new Constraints object receives
\* the boundary of the field, then add_superset_constraint is called with
\* the keyword value_superset, which is not a parameter of the method
apply_specific_constraint(field_label, df) ==
    IF field_label \in DOMAIN supersets
    THEN TypeErrorRet
    ELSE LET bool_boundaries ==
                 [i \in DOMAIN df |->
                     field_label \in DOMAIN boundaries =>
                         BoundaryHolds(df[i], field_label, boundaries[field_label])]
         IN  FrameRet(LocMask(df, bool_boundaries, 1))

\* min(a, b) and max(a, b) of Python: b only when b < a (b > a) is True
PyMin(a, b) == IF ~IsNaN(a) /\ ~IsNaN(b) /\ b < a THEN b ELSE a
PyMax(a, b) == IF ~IsNaN(a) /\ ~IsNaN(b) /\ b > a THEN b ELSE a
ListMin(values) == CHOOSE v \in Range(values) : \A w \in Range(values) : v <= w
ListMax(values) == CHOOSE v \in Range(values) : \A w \in Range(values) : v >= w

\* mutation: the larger minimum and the smaller maximum
get_extremes_tightest(field_label, default_min, default_max) ==
    LET boundary_in == field_label \in DOMAIN boundaries
        superset_in == field_label \in DOMAIN supersets
    IN  IF ~boundary_in /\ ~superset_in THEN TupleRet(default_min, default_max)
        ELSE IF boundary_in /\ superset_in
        THEN TupleRet(PyMax(boundaries[field_label].min, ListMin(supersets[field_label])),
                      PyMin(boundaries[field_label].max, ListMax(supersets[field_label])))
        ELSE IF ~boundary_in
        THEN TupleRet(ListMin(supersets[field_label]), ListMax(supersets[field_label]))
        ELSE TupleRet(boundaries[field_label].min, boundaries[field_label].max)

get_extremes(field_label, default_min, default_max) ==
    LET boundary_in == field_label \in DOMAIN boundaries
        superset_in == field_label \in DOMAIN supersets
    IN  IF ~boundary_in /\ ~superset_in THEN TupleRet(default_min, default_max)
        ELSE IF boundary_in /\ superset_in
        THEN LET b_min == boundaries[field_label].min
                 b_max == boundaries[field_label].max
                 s_min == ListMin(supersets[field_label])
                 s_max == ListMax(supersets[field_label])
             IN  TupleRet(PyMin(b_min, s_min), PyMax(b_max, s_max))
        ELSE IF ~boundary_in
        THEN TupleRet(ListMin(supersets[field_label]), ListMax(supersets[field_label]))
        ELSE TupleRet(boundaries[field_label].min, boundaries[field_label].max)

ApplySpecificConstraint ==
    \E field_label \in FieldLabels :
        /\ ret' = apply_specific_constraint(field_label, dataframe)
        /\ field_call' = [field_label |-> field_label, default_min |-> 0, default_max |-> 0]
        /\ UNCHANGED <<boundaries, supersets, polygons, dataframe, notConsField>>

GetExtremes ==
    \E field_label \in FieldLabels :
    \E defaults \in DefaultsPool :
        /\ ret' = get_extremes(field_label, defaults[1], defaults[2])
        /\ field_call' = [field_label |-> field_label,
                          default_min |-> defaults[1], default_max |-> defaults[2]]
        /\ UNCHANGED <<boundaries, supersets, polygons, dataframe, notConsField>>

FieldNext ==
    \/ add_boundary_constraint
    \/ add_superset_constraint
    \/ ApplySpecificConstraint
    \/ GetExtremes

\* ---- C22
SatisfiesField(row) ==
    LET f == field_call.field_label
    IN  /\ (f \in DOMAIN boundaries => SatisfiesBoundary(row, f))
        /\ (f \in DOMAIN supersets => SatisfiesSuperset(row, f))

\* C22: apply_specific_constraint(field_label, df) returns exactly the rows
\* of df that satisfy the boundary and/or superset constraints registered
\* for that field, whichever kinds the field has, ignoring the constraints
\* of every other field.
C22_SpecificConstraint ==
    ret.kind \in {"DataFrame", "TypeError"} =>
        ret = FrameRet(SelectSeq(dataframe, SatisfiesField))

\* ---- C23
Called_get_extremes == ret.kind = "tuple"
Smaller(a, b) == IF a <= b THEN a ELSE b
Larger(a, b) == IF a >= b THEN a ELSE b

\* C23 (amended): get_extremes returns the defaults for an unconstrained
\* field, the bounds of the boundary constraint (NaN for an unset one) when
\* there is no superset, the smallest and largest allowed values when there
\* is no boundary, and with both the widest interval: the smaller of the two
\* minima and the larger of the two maxima, an unset (NaN) bound of the
\* boundary constraint being returned as it is.
C23_WidestExtremes ==
    Called_get_extremes =>
        LET f == field_call.field_label
            boundary_in == f \in DOMAIN boundaries
            superset_in == f \in DOMAIN supersets
            lo == ret.rows[1]
            hi == ret.rows[2]
        IN  /\ (~boundary_in /\ ~superset_in) =>
                  (lo = field_call.default_min /\ hi = field_call.default_max)
            /\ (boundary_in /\ ~superset_in) =>
                  (lo = boundaries[f].min /\ hi = boundaries[f].max)
            /\ (~boundary_in /\ superset_in) =>
                  /\ lo \in Range(supersets[f]) /\ hi \in Range(supersets[f])
                  /\ \A v \in Range(supersets[f]) : lo <= v /\ v <= hi
            /\ (boundary_in /\ superset_in) =>
                  /\ lo = IF boundaries[f].min = NaN THEN NaN
                          ELSE Smaller(boundaries[f].min, ListMin(supersets[f]))
                  /\ hi = IF boundaries[f].max = NaN THEN NaN
                          ELSE Larger(boundaries[f].max, ListMax(supersets[f]))

\* both kinds of constraint on the field, and the returned interval is wider
\* than the boundary constraint
C23_Witness ==
    /\ Called_get_extremes
    /\ field_call.field_label \in DOMAIN boundaries
    /\ field_call.field_label \in DOMAIN supersets
    /\ boundaries[field_call.field_label] = [min |-> 2, max |-> 2]
    /\ ret.rows = <<1, 2>>

\* C23: get_extremes returns the tightest interval implied by the boundary
\* and superset constraints of the field together: no value outside it
\* passes both, and it is no wider than either constraint alone allows;
\* the defaults when the field is unconstrained.
C23_TightestExtremes ==
    Called_get_extremes =>
        LET f == field_call.field_label
            boundary_in == f \in DOMAIN boundaries
            superset_in == f \in DOMAIN supersets
            lo == ret.rows[1]
            hi == ret.rows[2]
        IN  /\ (~boundary_in /\ ~superset_in) =>
                  (lo = field_call.default_min /\ hi = field_call.default_max)
            /\ (boundary_in /\ boundaries[f].min # NaN) =>
                  (lo # NaN /\ lo >= boundaries[f].min)
            /\ (boundary_in /\ boundaries[f].max # NaN) =>
                  (hi # NaN /\ hi <= boundaries[f].max)
            /\ superset_in =>
                  /\ lo # NaN /\ lo >= ListMin(supersets[f])
                  /\ hi # NaN /\ hi <= ListMax(supersets[f])

(***************************************************************************)
(* Slice  (core/storers.py)                                                *)
(***************************************************************************)

MaxSliceRows == 2   \* rows of a sliced table
MaxDate == 2        \* dates are 1..MaxDate

\* a table row: its index label and its date; labels repeat in a table
\* concatenated without ignore_index
SliceRowPool == [idx : {0, 1}, DATE : 1..MaxDate]
SliceTablePool == SeqsUpTo(SliceRowPool, MaxSliceRows)
Sides == {"self", "other"}

NoSlice == [storer |-> 0, slice_index |-> <<>>, start_date |-> 0, end_date |-> 0]
NoSum == [kind |-> None, storer |-> 0, slice_index |-> <<>>]

SliceInit ==
    /\ sliced_storers \in [1..2 -> SliceTablePool]
    /\ made_slices = [side \in Sides |-> NoSlice]
    /\ slice_sum = NoSum

SliceIdle ==
    /\ sliced_storers = <<>>
    /\ made_slices = <<>>
    /\ slice_sum = NoSum

\* dates_col.loc[after_start & before_end].index.values.tolist()
RECURSIVE InRangeLabels(_, _, _, _)
InRangeLabels(data, start_date, end_date, i) ==
    IF i > Len(data) THEN <<>>
    ELSE (IF data[i].DATE >= start_date /\ data[i].DATE <= end_date
          THEN <<data[i].idx>> ELSE <<>>)
         \o InRangeLabels(data, start_date, end_date, i + 1)

\* DataFrame.loc[labels, :] : for each label of the list in turn, every row
\* carrying that label
RECURSIVE LocLabels(_, _, _)
LocLabels(data, labels, k) ==
    IF k > Len(labels) THEN <<>>
    ELSE SelectSeq(data, LAMBDA row : row.idx = labels[k])
         \o LocLabels(data, labels, k + 1)

\* Slice.data
Slice_data(slice) == LocLabels(sliced_storers[slice.storer], slice.slice_index, 1)

\* Storer.slice_on_dates
slice_on_dates ==
    \E side \in Sides, self \in 1..2, start_date \in 1..MaxDate, end_date \in 1..MaxDate :
        /\ made_slices' = [made_slices EXCEPT ![side] =
               [storer |-> self,
                slice_index |-> InRangeLabels(sliced_storers[self],
                                              start_date, end_date, 1),
                start_date |-> start_date, end_date |-> end_date]]
        /\ slice_sum' = NoSum
        /\ UNCHANGED <<sliced_storers, notSlice>>

\* Slice.__add__ : Storer.__eq__ is identity; list(set) has no specified order
Slice__add__ ==
    /\ made_slices["self"] # NoSlice /\ made_slices["other"] # NoSlice
    /\ LET self == made_slices["self"]
           other == made_slices["other"]
       IN  IF self.storer # other.storer
           THEN slice_sum' = [kind |-> "DifferentSliceOriginError",
                              storer |-> 0, slice_index |-> <<>>]
           ELSE \E new_index \in SetOrders(Range(self.slice_index)
                                             \cup Range(other.slice_index)) :
                    slice_sum' = [kind |-> "Slice", storer |-> self.storer,
                                  slice_index |-> new_index]
    /\ UNCHANGED <<sliced_storers, made_slices, notSlice>>

SliceNext ==
    \/ slice_on_dates
    \/ Slice__add__

\* ---- C24
RowsInRange(slice) ==
    SelectSeq(sliced_storers[slice.storer],
              LAMBDA row : slice.start_date <= row.DATE /\ row.DATE <= slice.end_date)

\* C24: the data of a Slice made by slice_on_dates is exactly the rows of
\* its parent's table whose date lies in the inclusive range
\* [start_date, end_date]; adding two Slices of the same parent gives a
\* Slice of that parent over the set union of their index lists, and adding
\* Slices of different parents raises DifferentSliceOriginError.
C24_SliceOnDates ==
    /\ \A side \in Sides :
          made_slices[side] # NoSlice =>
              Slice_data(made_slices[side]) = RowsInRange(made_slices[side])
    /\ slice_sum # NoSum =>
          IF made_slices["self"].storer = made_slices["other"].storer
          THEN /\ slice_sum.kind = "Slice"
               /\ slice_sum.storer = made_slices["self"].storer
               /\ Range(slice_sum.slice_index) =
                      Range(made_slices["self"].slice_index)
                          \cup Range(made_slices["other"].slice_index)
          ELSE slice_sum.kind = "DifferentSliceOriginError"

(***************************************************************************)
(* StoringVariablesSet.set_saving_order, SavingVariablesSet.save_labels    *)
(*   (core/variables/sets.py, core/sources.py)                             *)
(***************************************************************************)

MaxOrder == 2       \* names handed to set_saving_order
OrderNames == {"DATE", "TEMP", "CPHL"}      \* CPHL is in no explored set
SavingOrderPool == SeqsUpTo(OrderNames, MaxOrder)

SavingInit ==
    /\ \E given \in RoleArgsPool, extras \in ExtrasPool :
          LET made == BaseRequiredVarsSet__init__("StoringVariablesSet", given,
                                                  extras.args, extras.kwargs)
          IN  made.error = None /\ vset = made.set
    /\ vret = NoCall
    /\ proj = Unbuilt

\* StoringVariablesSet.set_saving_order : the names are stored as given
set_saving_order(vs, is_none, var_names) ==
    IF is_none THEN vs
    ELSE LET new_save == var_names
         IN  [vs EXCEPT !.save = new_save]

\* SavingVariablesSet.save_labels : [self.get(name).label for name in self._save]
save_labels(vs) ==
    IF Range(vs.save) \subseteq Names(vs) THEN None
    ELSE "IncorrectVariableNameError"

SetSavingOrder ==
    \E is_none \in BOOLEAN, var_names \in SavingOrderPool :
        /\ vset' = set_saving_order(vset, is_none, var_names)
        /\ vret' = Outcome("set_saving_order", None, None)
        /\ UNCHANGED <<proj, notVset>>

\* DataSource.saving_order : self._store_vars.saving_variables.save_labels
SavingOrder ==
    /\ proj' = saving_variables(vset).set
    /\ vret' = Outcome("saving_order", None, save_labels(saving_variables(vset).set))
    /\ UNCHANGED <<vset, notVset>>

SavingNext ==
    \/ SetSavingOrder
    \/ SavingOrder

\* ---- C26
\* C26: set_saving_order raises ValueError for a name that is not a
\* variable of the set and leaves the saving order unchanged, otherwise the
\* order becomes var_names; so after any sequence of set_saving_order calls
\* every name of the saving order is a variable of the set and save_labels
\* can be computed.
C26_SavingOrderResolves ==
    /\ Range(vset.save) \subseteq Names(vset)
    /\ vret.op = "saving_order" => vret.outcome = None

(***************************************************************************)
(* Storer.remove_duplicates  (core/storers.py)                             *)
(*                                                                         *)
(* A row holds its index label, its provider, KEY for the columns          *)
(* EXPOCODE, YEAR, MONTH, DAY, HOUR, LATITUDE, LONGITUDE and DEPH taken     *)
(* together, DATE for what the date column tells beyond them (the minutes  *)
(* within the hour), and one measured column VAL, an exact fraction.       *)
(***************************************************************************)

MaxDupRows == 3     \* rows of the table
MaxKey == 2         \* observation keys are 1..MaxKey

Providers == {"A", "B"}
ProviderRank(p) == IF p = "A" THEN 1 ELSE 2     \* alphabetical order
DupRowPool == [PROVIDER : Providers, KEY : 1..MaxKey, DATE : {0, 1}, VAL : {1, 3}]
DupReindex(rows) ==
    [i \in DOMAIN rows |-> [idx |-> i - 1, PROVIDER |-> rows[i].PROVIDER,
                            KEY |-> rows[i].KEY, DATE |-> rows[i].DATE,
                            VAL |-> rows[i].VAL]]
DupTablePool(max_rows) ==
    {DupReindex([i \in DOMAIN t |-> [t[i] EXCEPT !.VAL = Whole(t[i].VAL)]]) :
        t \in SeqsUpTo(DupRowPool, max_rows)}
PriorityPool == {<<"A", "B">>, <<"B", "A">>, <<"A">>}

NoDedup == [priority_list |-> <<>>, is_none |-> FALSE, outcome |-> None]

DedupInit ==
    /\ storer_data \in DupTablePool(MaxDupRows)
    /\ data_before = <<>>
    /\ dedup_call = NoDedup

DedupIdle ==
    /\ storer_data = <<>>
    /\ data_before = <<>>
    /\ dedup_call = NoDedup

\* the columns of subset_group, of _remove_duplicates_among_providers
AmongKey(row) == <<ProviderRank(row.PROVIDER), row.KEY, row.DATE>>

\* groupby sorts the groups by their key
RECURSIVE SortedGroups(_)
SortedGroups(groups) ==
    IF groups = {} THEN <<>>
    ELSE LET first == CHOOSE g \in groups : \A h \in groups :
                          \/ g[1] < h[1]
                          \/ g[1] = h[1] /\ g[2] < h[2]
                          \/ g[1] = h[1] /\ g[2] = h[2] /\ g[3] <= h[3]
         IN  <<first>> \o SortedGroups(groups \ {first})

\* Storer._remove_duplicates_among_providers
_remove_duplicates_among_providers(df) ==
    LET is_duplicated == [i \in DOMAIN df |->
                             \E j \in DOMAIN df : j # i /\ AmongKey(df[j]) = AmongKey(df[i])]
        dropped == SelectSeq(df, LAMBDA row :
                       ~\E i \in DOMAIN df : df[i] = row /\ is_duplicated[i])
        groups == SortedGroups({AmongKey(df[i]) : i \in {k \in DOMAIN df : is_duplicated[k]}})
        members(g) == {i \in DOMAIN df : AmongKey(df[i]) = g}
        mean(g) == Frac(SumOver([i \in DOMAIN df |-> df[i].VAL.num], members(g)),
                        Cardinality(members(g)))
        grouped == [k \in DOMAIN groups |->
                       LET one == df[CHOOSE i \in members(groups[k]) : TRUE]
                       IN  [idx |-> 0, PROVIDER |-> one.PROVIDER, KEY |-> one.KEY,
                            DATE |-> one.DATE, VAL |-> mean(groups[k])]]
    IN  DupReindex(dropped \o grouped)

\* priority_list.index(x), 0 where x is not in the list
IndexIn(priority_list, x) ==
    IF x \in Range(priority_list)
    THEN CHOOSE k \in DOMAIN priority_list : priority_list[k] = x
    ELSE 0

\* Storer._remove_duplicates_between_providers : the tables it can return
\* (sort_values does not order the rows of one provider among themselves),
\* or no table when priority_list.index raises ValueError
_remove_duplicates_between_providers(df, is_none, priority_list) ==
    LET providers == {df[i].PROVIDER : i \in DOMAIN df}
        is_duplicated == [i \in DOMAIN df |->
                             \E j \in DOMAIN df : j # i /\ df[j].KEY = df[i].KEY]
        duplicates == {i \in DOMAIN df : is_duplicated[i]}
        sort_func(x) == IF is_none THEN ProviderRank(x) ELSE IndexIn(priority_list, x)
        firsts(key) == {i \in duplicates :
                           /\ df[i].KEY = key
                           /\ \A j \in duplicates : df[j].KEY = key =>
                                  sort_func(df[i].PROVIDER) <= sort_func(df[j].PROVIDER)}
        keys == {df[i].KEY : i \in duplicates}
    IN  IF Cardinality(providers) = 1 \/ duplicates = {} THEN {df}
        ELSE IF \E i \in duplicates : sort_func(df[i].PROVIDER) = 0 THEN {}
        ELSE {LocMask(df, [i \in DOMAIN df |->
                              ~is_duplicated[i] \/ kept[df[i].KEY] = i], 1) :
                 kept \in {c \in [keys -> duplicates] : \A key \in keys : c[key] \in firsts(key)}}

\* Storer.remove_duplicates
remove_duplicates ==
    \E is_none \in BOOLEAN, priority_list \in PriorityPool :
        LET df == _remove_duplicates_among_providers(storer_data)
            results == _remove_duplicates_between_providers(df, is_none, priority_list)
        IN  /\ IF results = {}
               THEN /\ UNCHANGED storer_data
                    /\ dedup_call' = [priority_list |-> priority_list,
                                      is_none |-> is_none, outcome |-> "ValueError"]
               ELSE /\ storer_data' \in results
                    /\ dedup_call' = [priority_list |-> priority_list,
                                      is_none |-> is_none, outcome |-> "ok"]
            /\ data_before' = storer_data
            /\ UNCHANGED notDedup

DedupNext == remove_duplicates

\* ---- C27
RowsOfKey(df, key) == {i \in DOMAIN df : df[i].KEY = key}

\* a multiple of every denominator a mean of the table can have
RECURSIVE Factorial(_)
Factorial(n) == IF n <= 1 THEN 1 ELSE n * Factorial(n - 1)
CommonDen == Factorial(MaxDupRows)

\* the provider of the rows of one key that comes first in priority_list
FirstProvider(df, key) ==
    CHOOSE p \in {df[i].PROVIDER : i \in RowsOfKey(df, key)} :
        \A i \in RowsOfKey(df, key) :
            IndexIn(dedup_call.priority_list, p)
                <= IndexIn(dedup_call.priority_list, df[i].PROVIDER)

\* C27: after remove_duplicates(priority_list) no two rows share the same
\* observation key; each key of the table is left with one row, of the
\* provider that comes first in priority_list among the providers of that
\* key, whose value averages the rows that provider had for the key (a row
\* that had no duplicate is unchanged).
C27_OneRowPerKey ==
    (dedup_call.outcome = "ok" /\ ~dedup_call.is_none) =>
        \A key \in {data_before[i].KEY : i \in DOMAIN data_before} :
            /\ Cardinality(RowsOfKey(storer_data, key)) = 1
            /\ \A i \in RowsOfKey(storer_data, key) :
                  LET p == FirstProvider(data_before, key)
                      own == {j \in RowsOfKey(data_before, key) :
                                  data_before[j].PROVIDER = p}
                  IN  /\ storer_data[i].PROVIDER = p
                      /\ storer_data[i].VAL.num * Cardinality(own) * CommonDen =
                             storer_data[i].VAL.den *
                                 SumOver([j \in DOMAIN data_before |->
                                             data_before[j].VAL.num *
                                                 (CommonDen \div data_before[j].VAL.den)],
                                         own)

(***************************************************************************)
(* DateRangeGenerator  (utils/dateranges.py)                               *)
(*                                                                         *)
(* A date is a day number; day 0 is Sunday 22 December 2024, so that the   *)
(* first days hold ends of weeks, one end of month and one end of year.    *)
(* The end dates are the last second of their day.                         *)
(***************************************************************************)

MaxDay == 12            \* dates are 0..MaxDay
MaxIntervalLength == 3  \* days of a custom interval

DaysInWeek == 7
Dec31 == DaysInWeek + 2
Intervals == {"day", "week", "month", "year", "custom"}

\* pd.date_range(start, end, freq) for the freqs "D", "W" (Sundays),
\* "M" (month ends), "Y" (year ends) and "<n>D", as a set of days
OnFreq(day, start, freq, n) ==
    CASE freq = "D" -> TRUE
      [] freq = "W" -> day % DaysInWeek = 0
      [] freq = "M" -> day = Dec31
      [] freq = "Y" -> day = Dec31
      [] freq = "nD" -> (day - start) % n = 0

date_range(start, end, freq, n) == {day \in start..end : OnFreq(day, start, freq, n)}

freqs(interval) ==
    CASE interval = "day" -> "D"
      [] interval = "week" -> "W"
      [] interval = "month" -> "M"
      [] interval = "year" -> "Y"

\* the days of a set, in increasing order
RECURSIVE Ascending(_)
Ascending(days) ==
    IF days = {} THEN <<>>
    ELSE LET first == CHOOSE d \in days : \A e \in days : d <= e
         IN  <<first>> \o Ascending(days \ {first})

NoRange == [kind |-> None, pairs |-> <<>>]

\* DateRangeGenerator._make_custom_range : returns the concatenated DataFrame
_make_custom_range(self) ==
    LET dates == Ascending(date_range(self.start, self.end, "nD", self.interval_length))
        starts == dates
        ends == [k \in DOMAIN dates |->
                    IF k = Len(dates) THEN self.end ELSE dates[k + 1] - 1]
    IN  [kind |-> "DataFrame", pairs |-> [k \in DOMAIN dates |-> <<starts[k], ends[k]>>]]

\* DateRangeGenerator._make_range : ends.index[0] of an empty range raises
_make_range(self) ==
    LET dates == Ascending(date_range(self.start, self.end, freqs(self.interval), 1))
        ends == dates
        starts == [k \in DOMAIN dates |->
                      IF k = 1 THEN self.start ELSE dates[k - 1] + 1]
    IN  IF dates = <<>> THEN [kind |-> "IndexError", pairs |-> <<>>]
        ELSE IF ends[Len(ends)] # self.end
        THEN [kind |-> "DateRange",
              pairs |-> [k \in 1..(Len(dates) + 1) |->
                            IF k <= Len(dates) THEN <<starts[k], ends[k]>>
                            ELSE <<ends[Len(ends)] + 1, self.end>>]]
        ELSE [kind |-> "DateRange",
              pairs |-> [k \in DOMAIN dates |-> <<starts[k], ends[k]>>]]

\* DateRangeGenerator.__call__
DateRangeGenerator__call__(self) ==
    IF self.interval = "custom" THEN _make_custom_range(self)
    ELSE _make_range(self)

\* DateRangeGenerator.__init__
DrgInit ==
    /\ dateranges_gen \in {g \in [start : 0..MaxDay, end : 0..MaxDay,
                                  interval : Intervals,
                                  interval_length : 1..MaxIntervalLength] :
                              /\ g.start <= g.end
                              /\ g.interval # "custom" => g.interval_length = 1}
    /\ dateranges = NoRange

DrgIdle ==
    /\ dateranges_gen = [start |-> 0, end |-> 0, interval |-> None, interval_length |-> 1]
    /\ dateranges = NoRange

CallGenerator ==
    /\ dateranges' = DateRangeGenerator__call__(dateranges_gen)
    /\ UNCHANGED <<dateranges_gen, notDrg>>

DrgNext == CallGenerator

\* ---- C28
\* contiguous, non-overlapping pairs that cover [start, end] in order
Covers(pairs, start, end) ==
    /\ pairs # <<>>
    /\ pairs[1][1] = start
    /\ pairs[Len(pairs)][2] = end
    /\ \A k \in DOMAIN pairs : pairs[k][1] <= pairs[k][2]
    /\ \A k \in 1..(Len(pairs) - 1) : pairs[k + 1][1] = pairs[k][2] + 1

\* C28: for every start <= end and every granularity (day, week, month,
\* year, custom N days) the call of the DateRangeGenerator succeeds and
\* returns, as the same type of result (a DateRange), an ordered sequence
\* of (start_date, end_date) pairs that are contiguous, do not overlap and
\* cover the span: the first starts at start, each next one starts the day
\* after the previous one ends, the last ends on end.
C28_RangesCoverSpan ==
    dateranges # NoRange =>
        /\ dateranges.kind = "DateRange"
        /\ Covers(dateranges.pairs, dateranges_gen.start, dateranges_gen.end)

(***************************************************************************)
(* FileNamePattern.build, DateIntervalPattern  (utils/patterns.py)         *)
(*                                                                         *)
(* A date is [year, month, day].  The part of the regular expression made  *)
(* for the years, the months or the days is the set of numbers whose       *)
(* zero-filled writing it matches; a file name carries its date as the     *)
(* three fields of the pattern.                                            *)
(***************************************************************************)

MaxYear == 2        \* the years are 2020 .. 2020 + MaxYear

December == 12
Years == 2020..(2020 + MaxYear)
DaysIn(year, month) ==
    IF month = 2 THEN (IF year % 4 = 0 THEN 29 ELSE 28)
    ELSE IF month \in {4, 6, 9, 11} THEN 30 ELSE 31
Calendar ==
    {d \in [year : Years, month : 1..December, day : 1..31] :
        d.day <= DaysIn(d.year, d.month)}
\* the dates handed to build: a first day, a day from 20 on
DatePool == {d \in Calendar : d.day \in {1, 20}}

date(year, month, day) == [year |-> year, month |-> month, day |-> day]
DateLe(a, b) ==
    \/ a.year < b.year
    \/ a.year = b.year /\ a.month < b.month
    \/ a.year = b.year /\ a.month = b.month /\ a.day <= b.day

NoDates == [is_none |-> TRUE, date_min |-> date(0, 0, 0), date_max |-> date(0, 0, 0)]
NoMatcher == [kind |-> None, intervals |-> <<>>]

\* DateIntervalPattern._validate_inputs : the error raised, or None
_validate_inputs(date_min, date_max, precision) ==
    LET same_year == date_min.year = date_max.year
        same_month == same_year /\ date_min.month = date_max.month
    IN  IF ~DateLe(date_min, date_max) THEN "InvalidDateInputsError"
        ELSE IF precision = "month" /\ ~same_year THEN "InvalidPrecisionError"
        ELSE IF precision = "day" /\ ~same_month THEN "InvalidPrecisionError"
        ELSE None

\* DateIntervalPattern.years / months / days
years(is_none, date_min, date_max, precision) ==
    IF is_none THEN 0..9999                         \* [0-9][0-9][0-9][0-9]
    ELSE IF precision = "year" THEN date_min.year..date_max.year
    ELSE {date_min.year}

months(is_none, date_min, date_max, precision) ==
    IF is_none THEN 0..19                           \* [0-1][0-9]
    ELSE IF precision = "year" THEN 0..19
    ELSE IF precision = "month" THEN date_min.month..date_max.month
    ELSE {date_min.month}

days(is_none, date_min, date_max, precision) ==
    IF is_none THEN 0..19                           \* [0-1][0-9]
    ELSE IF precision = "day" THEN date_min.day..date_max.day
    ELSE 0..39                                      \* [0-3][0-9]

\* DateIntervalPattern(date_min, date_max, precision), with what
\* FileNamePattern._create_pattern reads of it
DateIntervalPattern(is_none, date_min, date_max, precision) ==
    [error |-> IF is_none THEN None ELSE _validate_inputs(date_min, date_max, precision),
     years |-> years(is_none, date_min, date_max, precision),
     months |-> months(is_none, date_min, date_max, precision),
     days |-> days(is_none, date_min, date_max, precision)]

with_day_precision(date_min, date_max) == DateIntervalPattern(FALSE, date_min, date_max, "day")
with_month_precision(date_min, date_max) == DateIntervalPattern(FALSE, date_min, date_max, "month")
with_year_precision(date_min, date_max) == DateIntervalPattern(FALSE, date_min, date_max, "year")

\* dt.date(year, month, 1) - dt.timedelta(days=1)
DayBeforeFirstOf(year, month) ==
    IF month = 1 THEN date(year - 1, December, 31)
    ELSE date(year, month - 1, DaysIn(year, month - 1))

\* the list of intervals, or the first error raised while building it
Sliced(interval_patterns) ==
    LET failed == {k \in DOMAIN interval_patterns : interval_patterns[k].error # None}
    IN  IF failed = {} THEN [kind |-> "PatternMatcher", intervals |-> interval_patterns]
        ELSE [kind |-> interval_patterns[CHOOSE k \in failed : \A j \in failed : k <= j].error,
              intervals |-> <<>>]

\* FileNamePattern._slice_all_differents : dt.date(month=13) raises ValueError
_slice_all_differents(date_min, date_max) ==
    LET start == date_min
        end == date_max
    IN  IF start.month + 1 > December THEN [kind |-> "ValueError", intervals |-> <<>>]
        ELSE LET end_1st_month == DayBeforeFirstOf(start.year, start.month + 1)
                 start_2nd_month == date(start.year, start.month + 1, 1)
                 end_first_year == date(start.year, December, 31)
                 start_2nd_year == date(start.year + 1, 1, 1)
                 end_penultimate_year == date(end.year - 1, December, 31)
                 start_last_year == date(end.year, 1, 1)
                 end_penultimate_month == DayBeforeFirstOf(end.year, end.month)
                 start_last_month == date(end.year, end.month, 1)
             IN  Sliced(<<with_day_precision(start, end_1st_month),
                          with_month_precision(start_2nd_month, end_first_year),
                          with_year_precision(start_2nd_year, end_penultimate_year),
                          with_month_precision(start_last_year, end_penultimate_month),
                          with_day_precision(start_last_month, end)>>)

\* FileNamePattern._slice_same_year
_slice_same_year(date_min, date_max) ==
    LET start == date_min
        end == date_max
        end_first_month == DayBeforeFirstOf(start.year, start.month + 1)
        start_second_month == date(start.year, start.month + 1, 1)
        end_penultimate_month == DayBeforeFirstOf(end.year, end.month)
        start_last_month == date(end.year, end.month, 1)
    IN  Sliced(<<with_day_precision(start, end_first_month),
                 with_month_precision(start_second_month, end_penultimate_month),
                 with_day_precision(start_last_month, end)>>)

\* FileNamePattern._slice_same_year_month
_slice_same_year_month(date_min, date_max) ==
    Sliced(<<with_day_precision(date_min, date_max)>>)

\* FileNamePattern._slice
_slice(is_none, date_min, date_max) ==
    IF is_none
    THEN Sliced(<<DateIntervalPattern(TRUE, date_min, date_max, "day")>>)
    ELSE LET years_eq == date_min.year = date_max.year
             months_eq == date_min.month = date_max.month
         IN  IF years_eq /\ months_eq THEN _slice_same_year_month(date_min, date_max)
             ELSE IF years_eq THEN _slice_same_year(date_min, date_max)
             ELSE _slice_all_differents(date_min, date_max)

\* FileNamePattern.build : one alternative of the pattern per interval
FileNamePattern_build(is_none, date_min, date_max) == _slice(is_none, date_min, date_max)

PatternInit ==
    /\ pattern_dates \in {NoDates} \cup
           {p \in [is_none : {FALSE}, date_min : DatePool, date_max : DatePool] :
               DateLe(p.date_min, p.date_max)}
    /\ matcher = NoMatcher

PatternIdle ==
    /\ pattern_dates = NoDates
    /\ matcher = NoMatcher

Build ==
    /\ matcher' = FileNamePattern_build(pattern_dates.is_none, pattern_dates.date_min,
                                        pattern_dates.date_max)
    /\ UNCHANGED <<pattern_dates, notPattern>>

PatternNext == Build

\* ---- C30
\* re.match of the pattern on the file name of a date
MatchesDate(intervals, d) ==
    \E k \in DOMAIN intervals :
        /\ d.year \in intervals[k].years
        /\ d.month \in intervals[k].months
        /\ d.day \in intervals[k].days

InSpan(d) ==
    \/ pattern_dates.is_none
    \/ DateLe(pattern_dates.date_min, d) /\ DateLe(d, pattern_dates.date_max)

\* C30: for every date_min <= date_max (same month, same year, consecutive
\* years or years further apart, any months, January and December
\* included) FileNamePattern.build raises no error and returns a pattern
\* that matches the file name of every date of [date_min, date_max]; with
\* both dates None the pattern matches the file name of every date.
C30_PatternMatchesSpan ==
    matcher # NoMatcher =>
        /\ matcher.kind = "PatternMatcher"
        /\ \A d \in Calendar : InSpan(d) => MatchesDate(matcher.intervals, d)

(***************************************************************************)
(* Specifications: one component runs, the others stay idle                *)
(***************************************************************************)

InitConstraints == ConsInit /\ MatchIdle /\ InterpIdle /\ FeatIdle /\ VsetIdle /\ StorerIdle /\ MetricIdle /\ SelectIdle /\ IStorerIdle /\ LoaderIdle /\ NanIdle /\ FieldIdle /\ SliceIdle /\ DedupIdle /\ DrgIdle /\ PatternIdle
SpecConstraints == InitConstraints /\ [][ConsNext]_vars

InitMatch == MatchInit /\ ConsIdle /\ InterpIdle /\ FeatIdle /\ VsetIdle /\ StorerIdle /\ MetricIdle /\ SelectIdle /\ IStorerIdle /\ LoaderIdle /\ NanIdle /\ FieldIdle /\ SliceIdle /\ DedupIdle /\ DrgIdle /\ PatternIdle
SpecMatch == InitMatch /\ [][MatchNext]_vars

InitInterp == InterpInit /\ ConsIdle /\ MatchIdle /\ FeatIdle /\ VsetIdle /\ StorerIdle /\ MetricIdle /\ SelectIdle /\ IStorerIdle /\ LoaderIdle /\ NanIdle /\ FieldIdle /\ SliceIdle /\ DedupIdle /\ DrgIdle /\ PatternIdle
SpecInterp == InitInterp /\ [][InterpNext]_vars

InitFeatures == FeatInit /\ ConsIdle /\ MatchIdle /\ InterpIdle /\ VsetIdle /\ StorerIdle /\ MetricIdle /\ SelectIdle /\ IStorerIdle /\ LoaderIdle /\ NanIdle /\ FieldIdle /\ SliceIdle /\ DedupIdle /\ DrgIdle /\ PatternIdle
SpecFeatures == InitFeatures /\ [][FeatNext]_vars

InitVarSet == VsetInit /\ ConsIdle /\ MatchIdle /\ InterpIdle /\ FeatIdle /\ StorerIdle /\ MetricIdle /\ SelectIdle /\ IStorerIdle /\ LoaderIdle /\ NanIdle /\ FieldIdle /\ SliceIdle /\ DedupIdle /\ DrgIdle /\ PatternIdle
SpecVarSet == InitVarSet /\ [][VsetNext]_vars

InitStorer == StorerInit /\ ConsIdle /\ MatchIdle /\ InterpIdle /\ FeatIdle /\ VsetIdle /\ MetricIdle /\ SelectIdle /\ IStorerIdle /\ LoaderIdle /\ NanIdle /\ FieldIdle /\ SliceIdle /\ DedupIdle /\ DrgIdle /\ PatternIdle
SpecStorer == InitStorer /\ [][StorerNext]_vars

InitStorerAdd == AddInit /\ ConsIdle /\ MatchIdle /\ InterpIdle /\ FeatIdle /\ VsetIdle /\ MetricIdle /\ SelectIdle /\ IStorerIdle /\ LoaderIdle /\ NanIdle /\ FieldIdle /\ SliceIdle /\ DedupIdle /\ DrgIdle /\ PatternIdle
SpecStorerAdd == InitStorerAdd /\ [][AddNext]_vars

InitMetric == MetricInit /\ MatchIdle /\ InterpIdle /\ FeatIdle /\ VsetIdle /\ StorerIdle /\ ConsIdle /\ SelectIdle /\ IStorerIdle /\ LoaderIdle /\ NanIdle /\ FieldIdle /\ SliceIdle /\ DedupIdle /\ DrgIdle /\ PatternIdle
SpecMetric == InitMetric /\ [][MetricNext]_vars

InitSelect == SelectInit /\ MatchIdle /\ InterpIdle /\ FeatIdle /\ VsetIdle /\ StorerIdle /\ MetricIdle /\ ConsIdle /\ IStorerIdle /\ LoaderIdle /\ NanIdle /\ FieldIdle /\ SliceIdle /\ DedupIdle /\ DrgIdle /\ PatternIdle
SpecSelect == InitSelect /\ [][SelectNext]_vars

InitInterpStorer == IStorerInit /\ MatchIdle /\ InterpProfiles /\ FeatIdle /\ VsetIdle /\ StorerIdle /\ MetricIdle /\ SelectIdle /\ ConsIdle /\ LoaderIdle /\ NanIdle /\ FieldIdle /\ SliceIdle /\ DedupIdle /\ DrgIdle /\ PatternIdle
SpecInterpStorer == InitInterpStorer /\ [][IStorerNext]_vars

InitLoaders == LoaderInit /\ MatchIdle /\ InterpIdle /\ FeatIdle /\ VsetIdle /\ StorerIdle /\ MetricIdle /\ SelectIdle /\ IStorerIdle /\ ConsIdle /\ NanIdle /\ FieldIdle /\ SliceIdle /\ DedupIdle /\ DrgIdle /\ PatternIdle
SpecLoaders == InitLoaders /\ [][LoaderNext]_vars

InitNanRows == NanInit /\ MatchIdle /\ InterpIdle /\ FeatIdle /\ VsetIdle /\ StorerIdle /\ MetricIdle /\ SelectIdle /\ IStorerIdle /\ LoaderIdle /\ ConsIdle /\ FieldIdle /\ SliceIdle /\ DedupIdle /\ DrgIdle /\ PatternIdle
SpecNanRows == InitNanRows /\ [][NanNext]_vars

InitBoundary == ConsInit /\ MatchIdle /\ InterpIdle /\ FeatIdle /\ VsetIdle /\ StorerIdle /\ MetricIdle /\ SelectIdle /\ IStorerIdle /\ LoaderIdle /\ NanIdle /\ FieldIdle /\ SliceIdle /\ DedupIdle /\ DrgIdle /\ PatternIdle
SpecBoundary == InitBoundary /\ [][BoundaryNext]_vars

InitField == FieldInit /\ MatchIdle /\ InterpIdle /\ FeatIdle /\ VsetIdle /\ StorerIdle /\ MetricIdle /\ SelectIdle /\ IStorerIdle /\ LoaderIdle /\ NanIdle /\ SliceIdle /\ DedupIdle /\ DrgIdle /\ PatternIdle
SpecField == InitField /\ [][FieldNext]_vars

InitSlice == SliceInit /\ MatchIdle /\ InterpIdle /\ FeatIdle /\ VsetIdle /\ StorerIdle /\ MetricIdle /\ SelectIdle /\ IStorerIdle /\ LoaderIdle /\ NanIdle /\ FieldIdle /\ ConsIdle /\ DedupIdle /\ DrgIdle /\ PatternIdle
SpecSlice == InitSlice /\ [][SliceNext]_vars

InitSaving == SavingInit /\ ConsIdle /\ MatchIdle /\ InterpIdle /\ FeatIdle /\ StorerIdle /\ MetricIdle /\ SelectIdle /\ IStorerIdle /\ LoaderIdle /\ NanIdle /\ FieldIdle /\ SliceIdle /\ DedupIdle /\ DrgIdle /\ PatternIdle
SpecSaving == InitSaving /\ [][SavingNext]_vars

InitDedup == DedupInit /\ MatchIdle /\ InterpIdle /\ FeatIdle /\ VsetIdle /\ StorerIdle /\ MetricIdle /\ SelectIdle /\ IStorerIdle /\ LoaderIdle /\ NanIdle /\ FieldIdle /\ SliceIdle /\ ConsIdle /\ DrgIdle /\ PatternIdle
SpecDedup == InitDedup /\ [][DedupNext]_vars

InitDateRange == DrgInit /\ MatchIdle /\ InterpIdle /\ FeatIdle /\ VsetIdle /\ StorerIdle /\ MetricIdle /\ SelectIdle /\ IStorerIdle /\ LoaderIdle /\ NanIdle /\ FieldIdle /\ SliceIdle /\ DedupIdle /\ ConsIdle /\ PatternIdle
SpecDateRange == InitDateRange /\ [][DrgNext]_vars

InitPattern == PatternInit /\ MatchIdle /\ InterpIdle /\ FeatIdle /\ VsetIdle /\ StorerIdle /\ MetricIdle /\ SelectIdle /\ IStorerIdle /\ LoaderIdle /\ NanIdle /\ FieldIdle /\ SliceIdle /\ DedupIdle /\ DrgIdle /\ ConsIdle
SpecPattern == InitPattern /\ [][PatternNext]_vars

====
